---- MODULE Spec2Model ----
(***************************************************************************)
(* Model of the AI classification path of plex-holiday-playlist-maker:     *)
(*   src/src/lib/ai/classifier.ts            HolidayAIClassifier           *)
(*   src/src/lib/db/classification-cache.ts  bulk cache lookup, partition  *)
(*   src/src/app/api/ai-bulk-classify/route.ts  bulk orchestration POST    *)
(*   src/init.sql                            the three tables              *)
(*                                                                         *)
(* Every await of the code is one step of a process; several classify     *)
(* calls and bulk runs interleave at those steps over one shared store.   *)
(***************************************************************************)
EXTENDS Integers, Sequences, FiniteSets, TLC

\* ------------------------------------------------------------------ bounds
\* Number of classify calls (direct or reserved by a bulk request) and of
\* bulk requests without a classify call that one behaviour starts.
MaxCalls == 2

\* Number of connect calls of the Plex context that can be awaiting their
\* connection test at the same time.
MaxConnects == 2

\* ------------------------------------------------------- program constants
maxRetries == 5
baseDelay == 2
ConfidenceThreshold == 70
CheckConfidenceMin == 0
CheckConfidenceMax == 100
\* HolidayMatcher
TitleWeight == 10
SummaryWeight == 3
StrongTitleWeight == 15
StrongSummaryWeight == 5
MatchThreshold == 8
YearTolerance == 1
\* range of the confidence slider
ThresholdMin == 1
ThresholdMax == 20

\* ----------------------------------------------------------------- values
Undefined == "undefined"
Null == "null"

\* plex keys of the media items of the library
Items == {"k1", "k2"}
\* concurrently running request handlers; every handler serves direct
\* classify calls, those of BulkProcs also serve bulk-classify requests
Procs == {"p1", "p2"}

BulkProcs == {"p1"}

holidayNameMap ==
  [ christmas |-> "Christmas",
    thanksgiving |-> "Thanksgiving",
    halloween |-> "Halloween",
    new_years |-> "New Years",
    hanukkah |-> "Hanukkah",
    kwanzaa |-> "Kwanzaa",
    easter |-> "Easter",
    valentine |-> "Valentine's Day",
    independence_day |-> "Independence Day",
    st_patricks |-> "St. Patrick's Day",
    april_fools |-> "April Fools",
    mothers_day |-> "Mother's Day",
    fathers_day |-> "Father's Day",
    labor_day |-> "Labor Day",
    memorial_day |-> "Memorial Day",
    veterans_day |-> "Veterans Day",
    mardi_gras |-> "Mardi Gras",
    dia_de_los_muertos |-> "Dia de los Muertos",
    chinese_new_year |-> "Chinese New Year",
    diwali |-> "Diwali",
    ramadan |-> "Ramadan",
    generic_winter_holiday |-> "Winter Holiday",
    generic_holiday |-> "Generic Holiday" ]

\* The holiday enum of the store.
HolidayEnum == { holidayNameMap[t] : t \in DOMAIN holidayNameMap }

\* -------------------------------------------------- backend answers (inputs)
\* Parsed content of a completion: the "holidays" array of the JSON object.
RawA ==
  << [holiday |-> "christmas", confidence |-> 95, reason |-> "tree"] >>

RawB ==
  << [holiday |-> "halloween", confidence |-> 80, reason |-> Undefined],
     [holiday |-> "arbor_day", confidence |-> 90, reason |-> "trees"] >>

RawC ==
  << [holiday |-> "easter", confidence |-> 60, reason |-> "eggs"],
     [holiday |-> "christmas", confidence |-> 150, reason |-> "snow"] >>

RawD == << >>

\* A token that is no key of the table but a property every object inherits.
RawE ==
  << [holiday |-> "constructor", confidence |-> 75, reason |-> "built"] >>

RawResponses == {RawA, RawB, RawC, RawD, RawE}

\* An answer below the confidence the prompt asks for (the loops get it too).
RawF ==
  << [holiday |-> "easter", confidence |-> 65, reason |-> "eggs"] >>

\* An answer that names one holiday twice (the scan gets it too).
RawG ==
  << [holiday |-> "christmas", confidence |-> 95, reason |-> "tree"],
     [holiday |-> "christmas", confidence |-> 80, reason |-> "snow"] >>

\* media arrays and selectedHolidays arrays of bulk-classify request bodies
MediaLists == { << >>, <<"k1">>, <<"k1", "k2">> }

SelectedChoices == { {"Christmas"}, {"Christmas", "Halloween", "Easter"} }

\* retry-after header of a 429 answer, a string as a sequence of characters;
\* the empty string stands for an absent header (both are falsy in the lookup).
NoHeader == << >>

RetryAfterHeaders == { NoHeader, <<"1", "2">> }


\* An error object as the catch block of classify inspects it.
ApiError(status, code, retryAfter) ==
  [status |-> status, code |-> code, retryAfter |-> retryAfter]

\* status 0: the error object has no status property
NoStatus == 0

NoError == ApiError(NoStatus, "none", NoHeader)
EmptyResponseError == ApiError(NoStatus, "empty_response", NoHeader)
SyntaxError == ApiError(NoStatus, "syntax_error", NoHeader)
DbError == ApiError(NoStatus, "db_error", NoHeader)

\* What one chat.completions.create call can produce.
BackendOutcomes ==
  { [kind |-> "ok", raw |-> r, err |-> NoError] : r \in RawResponses }
  \cup { [kind |-> "empty", raw |-> <<>>, err |-> EmptyResponseError],
         [kind |-> "unparseable", raw |-> <<>>, err |-> SyntaxError],
         [kind |-> "error", raw |-> <<>>,
          err |-> ApiError(400, "content_filter", NoHeader)],
         [kind |-> "error", raw |-> <<>>,
          err |-> ApiError(500, "server_error", NoHeader)] }
  \cup { [kind |-> "error", raw |-> <<>>, err |-> ApiError(429, "rate_limit", h)] :
           h \in RetryAfterHeaders }

\* ---------------------------------------------------------- pure functions
DigitChars == <<"0", "1", "2", "3", "4", "5", "6", "7", "8", "9">>

IsDigit(c) == \E d \in 1..10 : DigitChars[d] = c

DigitValue(c) == (CHOOSE d \in 1..10 : DigitChars[d] = c) - 1

RECURSIVE ParseDigits(_, _, _)
ParseDigits(s, i, acc) ==
  IF i > Len(s) \/ ~IsDigit(s[i]) THEN acc
  ELSE ParseDigits(s, i + 1, acc * 10 + DigitValue(s[i]))

\* parseInt(header, 10): the leading decimal digits, NaN when there are none.
ParseInt(s) ==
  IF Len(s) = 0 \/ ~IsDigit(s[1]) THEN "NaN" ELSE ParseDigits(s, 1, 0)

RECURSIVE Pow2(_)
Pow2(n) == IF n = 0 THEN 1 ELSE 2 * Pow2(n - 1)

\* Variant: the exponent is retries instead of retries - 1.
RetryDelay_NoMinusOne(retries, err) ==
  IF err.retryAfter # NoHeader
  THEN ParseInt(err.retryAfter)
  ELSE baseDelay * Pow2(retries)

\* retryDelay of the catch block, for the value of retries after retries++.
RetryDelay(retries, err) ==
  IF err.retryAfter # NoHeader
  THEN ParseInt(err.retryAfter)
  ELSE baseDelay * Pow2(retries - 1)

\* The function-valued properties an object literal inherits from
\* Object.prototype.
ObjectPrototypeKeys ==
  { "constructor", "hasOwnProperty", "isPrototypeOf", "propertyIsEnumerable",
    "toLocaleString", "toString", "valueOf" }

\* What reading such a property gives: a native function, not a string.
NativeFunction == "function () { [native code] }"

\* token in this.holidayNameMap: own keys and inherited properties.
IsRecognized(token) ==
  token \in DOMAIN holidayNameMap \/ token \in ObjectPrototypeKeys

\* this.holidayNameMap[token]
LookupHoliday(token) ==
  IF token \in DOMAIN holidayNameMap THEN holidayNameMap[token] ELSE NativeFunction

\* mappedHolidays: the entries whose token passes the filter, mapped, in order.
MappedHolidays(raw) ==
  LET recognized == SelectSeq(raw, LAMBDA h : IsRecognized(h.holiday))
  IN [ i \in 1..Len(recognized) |->
         [ holiday |-> LookupHoliday(recognized[i].holiday),
           confidence |-> recognized[i].confidence,
           reason |-> recognized[i].reason ] ]

\* h.reason as a reader of an object sees it.
ReasonOf(h) == IF "reason" \in DOMAIN h THEN h.reason ELSE Undefined

\* JSON.stringify of a result, then stored as JSONB and read back: a property
\* whose value is undefined is not part of the stored object.
JsonEntry(h) ==
  IF ReasonOf(h) = Undefined
  THEN [holiday |-> h.holiday, confidence |-> h.confidence]
  ELSE h

\* Variant: the last entry of the result is lost in the stored payload.
JsonStringify_Truncated(holidays) ==
  [ i \in 1..(Len(holidays) - 1) |-> JsonEntry(holidays[i]) ]

JsonStringify(holidays) ==
  [ i \in 1..Len(holidays) |-> JsonEntry(holidays[i]) ]

\* Two results a caller cannot tell apart.
SameResult(a, b) ==
  /\ Len(a) = Len(b)
  /\ \A i \in 1..Len(a) :
       /\ a[i].holiday = b[i].holiday
       /\ a[i].confidence = b[i].confidence
       /\ ReasonOf(a[i]) = ReasonOf(b[i])

\* ------------------------------------------------------------- the store
\* SERIAL ids are modelled without gaps: the next id is the row count + 1.
NextId(tbl) == Cardinality(tbl) + 1

\* Variant: plex_key is not unique, every INSERT adds a row.
InsertMediaItem_NoConflict(tbl, key) ==
  tbl \cup { [id |-> NextId(tbl), plex_key |-> key] }

\* INSERT INTO media_items ... ON CONFLICT (plex_key) DO NOTHING
InsertMediaItem(tbl, key) ==
  IF \E r \in tbl : r.plex_key = key
  THEN tbl
  ELSE tbl \cup { [id |-> NextId(tbl), plex_key |-> key] }

\* SELECT id FROM media_items WHERE plex_key = $1
SelectMediaItemId(tbl, key) ==
  (CHOOSE r \in tbl : r.plex_key = key).id

\* CHECK (confidence >= 0 AND confidence <= 100)
ViolatesCheck(c) ==
  ~(c.confidence >= CheckConfidenceMin /\ c.confidence <= CheckConfidenceMax)

\* CREATE TYPE holiday AS ENUM (...)
SqlHolidayEnum ==
  { "Christmas", "Thanksgiving", "Halloween", "New Years", "Hanukkah", "Kwanzaa",
    "Easter", "Valentine's Day", "Independence Day", "St. Patrick's Day",
    "April Fools", "Mother's Day", "Father's Day", "Labor Day", "Memorial Day",
    "Veterans Day", "Mardi Gras", "Dia de los Muertos", "Chinese New Year",
    "Diwali", "Ramadan", "Winter Holiday", "Generic Holiday" }

\* The value sent for column holiday is no label of the enum type.
ViolatesEnum(c) == c.holiday \notin SqlHolidayEnum

\* INSERT INTO ai_classifications ... ON CONFLICT (media_item_id, holiday) DO NOTHING
InsertClassification(tbl, mediaItemId, c) ==
  IF \E r \in tbl : r.media_item_id = mediaItemId /\ r.holiday = c.holiday
  THEN tbl
  ELSE tbl \cup { [ id |-> NextId(tbl),
                    media_item_id |-> mediaItemId,
                    holiday |-> c.holiday,
                    confidence |-> c.confidence,
                    reason |-> IF c.reason = Undefined THEN Null ELSE c.reason ] }

\* Variant: ON CONFLICT (media_item_id) DO UPDATE, the later write wins.
InsertCacheRow_Overwrite(tbl, mediaItemId, responsePayload) ==
  { r \in tbl : r.media_item_id # mediaItemId }
    \cup { [ id |-> NextId({ r \in tbl : r.media_item_id # mediaItemId }),
              media_item_id |-> mediaItemId,
              response_payload |-> JsonStringify(responsePayload),
              model |-> "gpt-4o" ] }

\* INSERT INTO ai_response_cache ... ON CONFLICT (media_item_id) DO NOTHING
InsertCacheRow(tbl, mediaItemId, responsePayload) ==
  IF \E r \in tbl : r.media_item_id = mediaItemId
  THEN tbl
  ELSE tbl \cup { [ id |-> NextId(tbl),
                    media_item_id |-> mediaItemId,
                    response_payload |-> JsonStringify(responsePayload),
                    model |-> "gpt-4o" ] }

\* SELECT ac.response_payload FROM ai_response_cache ac
\*   JOIN media_items mi ON mi.id = ac.media_item_id WHERE mi.plex_key = $1
SelectCacheRows(mediaTbl, cacheTbl, key) ==
  { c \in cacheTbl :
      \E m \in mediaTbl : m.id = c.media_item_id /\ m.plex_key = key }


\* ------------------------------------------------------- text and patterns
\* A text is the sequence of its lexemes in lower case (every pattern is
\* compiled with flag i and the title comparisons lower-case their operands):
\* a lexeme is a maximal run of word characters [A-Za-z0-9_] or one single
\* other character.
NonWord == {" ", "-", ":", "'", "."}

IsWordLexeme(l) == l \notin NonWord

\* the letters of the words of the texts and of the patterns without \b
Spelling ==
  "14" :> << "1", "4" >> @@
  "25" :> << "2", "5" >> @@
  "31" :> << "3", "1" >> @@
  "a" :> << "a" >> @@
  "all" :> << "a", "l", "l" >> @@
  "before" :> << "b", "e", "f", "o", "r", "e" >> @@
  "candy" :> << "c", "a", "n", "d", "y" >> @@
  "cane" :> << "c", "a", "n", "e" >> @@
  "carol" :> << "c", "a", "r", "o", "l" >> @@
  "christmas" :> << "c", "h", "r", "i", "s", "t", "m", "a", "s" >> @@
  "cold" :> << "c", "o", "l", "d" >> @@
  "cupid" :> << "c", "u", "p", "i", "d" >> @@
  "day" :> << "d", "a", "y" >> @@
  "december" :> << "d", "e", "c", "e", "m", "b", "e", "r" >> @@
  "feast" :> << "f", "e", "a", "s", "t" >> @@
  "february" :> << "f", "e", "b", "r", "u", "a", "r", "y" >> @@
  "fun" :> << "f", "u", "n" >> @@
  "grinch" :> << "g", "r", "i", "n", "c", "h" >> @@
  "halloween" :> << "h", "a", "l", "l", "o", "w", "e", "e", "n" >> @@
  "hallows" :> << "h", "a", "l", "l", "o", "w", "s" >> @@
  "ho" :> << "h", "o" >> @@
  "horror" :> << "h", "o", "r", "r", "o", "r" >> @@
  "island" :> << "i", "s", "l", "a", "n", "d" >> @@
  "live" :> << "l", "i", "v", "e" >> @@
  "love" :> << "l", "o", "v", "e" >> @@
  "nightmare" :> << "n", "i", "g", "h", "t", "m", "a", "r", "e" >> @@
  "october" :> << "o", "c", "t", "o", "b", "e", "r" >> @@
  "parade" :> << "p", "a", "r", "a", "d", "e" >> @@
  "pumpkin" :> << "p", "u", "m", "p", "k", "i", "n" >> @@
  "s" :> << "s" >> @@
  "samhain" :> << "s", "a", "m", "h", "a", "i", "n" >> @@
  "santa" :> << "s", "a", "n", "t", "a" >> @@
  "santana" :> << "s", "a", "n", "t", "a", "n", "a" >> @@
  "spice" :> << "s", "p", "i", "c", "e" >> @@
  "story" :> << "s", "t", "o", "r", "y" >> @@
  "the" :> << "t", "h", "e" >> @@
  "treehouse" :> << "t", "r", "e", "e", "h", "o", "u", "s", "e" >> @@
  "turkey" :> << "t", "u", "r", "k", "e", "y" >> @@
  "valentine" :> << "v", "a", "l", "e", "n", "t", "i", "n", "e" >> @@
  "visits" :> << "v", "i", "s", "i", "t", "s" >>

StartsWith(w, f) ==
  LET a == Spelling[w]
      b == Spelling[f]
  IN  Len(b) <= Len(a) /\ SubSeq(a, 1, Len(b)) = b

EndsWith(w, f) ==
  LET a == Spelling[w]
      b == Spelling[f]
  IN  Len(b) <= Len(a) /\ SubSeq(a, Len(a) - Len(b) + 1, Len(a)) = b

Contains(w, f) ==
  LET a == Spelling[w]
      b == Spelling[f]
  IN  \E i \in 1..Len(a) :
        i + Len(b) - 1 <= Len(a) /\ SubSeq(a, i, i + Len(b) - 1) = b

\* A pattern is [bl, br, alts]: whether it begins and ends with \b, and the
\* finite set of lower-case strings it spells, each as its lexemes.
\* Lexeme al of a pattern against lexeme tl of the text; a match may begin
\* (openLeft) or end (openRight) inside a word where the pattern has no \b.
LexemeMatches(tl, al, openLeft, openRight) ==
  IF ~IsWordLexeme(al) \/ ~IsWordLexeme(tl) THEN tl = al
  ELSE IF openLeft /\ openRight THEN Contains(tl, al)
  ELSE IF openLeft THEN EndsWith(tl, al)
  ELSE IF openRight THEN StartsWith(tl, al)
  ELSE tl = al

WordAt(text, i) == i >= 1 /\ i <= Len(text) /\ IsWordLexeme(text[i])

\* \b holds in front of lexeme i
Boundary(text, i) == WordAt(text, i - 1) # WordAt(text, i)

AltMatchesAt(pat, alt, text, i) ==
  LET n == Len(alt)
  IN  /\ i + n - 1 <= Len(text)
      /\ \A k \in 1..n :
           LexemeMatches(text[i + k - 1], alt[k],
                         k = 1 /\ ~pat.bl, k = n /\ ~pat.br)
      /\ pat.bl => Boundary(text, i)
      /\ pat.br => Boundary(text, i + n)

\* new RegExp(pattern, 'i').test(text)
Test(pat, text) ==
  \E alt \in pat.alts : \E i \in 1..Len(text) : AltMatchesAt(pat, alt, text, i)

\* CURATED_KEYWORDS[Halloween]
KeywordsHalloween ==
  << [bl |-> TRUE, br |-> TRUE, alts |-> {<<"halloween">>, <<"hallowen">>}],
     [bl |-> FALSE, br |-> FALSE, alts |->
          {<<"treehouse", " ", "of", " ", "horror">>}],
     [bl |-> TRUE, br |-> TRUE, alts |-> {<<"spooktacular">>}],
     [bl |-> TRUE, br |-> TRUE, alts |->
          {<<"jack", " ", "o", " ", "lantern">>,
           <<"jack", " ", "o", "-", "lantern">>,
           <<"jack", "-", "o", " ", "lantern">>,
           <<"jack", "-", "o", "-", "lantern">>}],
     [bl |-> TRUE, br |-> TRUE, alts |->
          {<<"trick", " ", "or", " ", "treat">>,
           <<"trick", " ", "or", "-", "treat">>, <<"trick", " ", "ortreat">>,
           <<"trick", "-", "or", " ", "treat">>,
           <<"trick", "-", "or", "-", "treat">>, <<"trick", "-", "ortreat">>,
           <<"trickor", " ", "treat">>, <<"trickor", "-", "treat">>,
           <<"trickortreat">>}],
     [bl |-> TRUE, br |-> TRUE, alts |-> {<<"pumpkin">>, <<"pumpkins">>}],
     [bl |-> FALSE, br |-> FALSE, alts |-> {<<"all", " ", "hallows">>}],
     [bl |-> FALSE, br |-> FALSE, alts |-> {<<"october", " ", "31">>}],
     [bl |-> FALSE, br |-> FALSE, alts |-> {<<"samhain">>}] >>

\* CURATED_KEYWORDS[Thanksgiving]
KeywordsThanksgiving ==
  << [bl |-> TRUE, br |-> TRUE, alts |-> {<<"thanksgiving">>}],
     [bl |-> TRUE, br |-> TRUE, alts |-> {<<"friendsgiving">>}],
     [bl |-> TRUE, br |-> TRUE, alts |-> {<<"turkey">>}],
     [bl |-> TRUE, br |-> TRUE, alts |-> {<<"pilgrim">>, <<"pilgrims">>}],
     [bl |-> TRUE, br |-> TRUE, alts |-> {<<"parade">>}],
     [bl |-> TRUE, br |-> TRUE, alts |-> {<<"stuffing">>}],
     [bl |-> TRUE, br |-> TRUE, alts |-> {<<"cranberrie">>, <<"cranberries">>}],
     [bl |-> TRUE, br |-> TRUE, alts |-> {<<"cornucopia">>}],
     [bl |-> TRUE, br |-> TRUE, alts |-> {<<"feast">>}],
     [bl |-> TRUE, br |-> TRUE, alts |-> {<<"gravy">>}],
     [bl |-> TRUE, br |-> TRUE, alts |-> {<<"gobble">>}],
     [bl |-> TRUE, br |-> TRUE, alts |-> {<<"harvest">>}],
     [bl |-> TRUE, br |-> TRUE, alts |-> {<<"macy", "'", "s">>, <<"macys">>}],
     [bl |-> TRUE, br |-> TRUE, alts |-> {<<"nfl">>}] >>

\* CURATED_KEYWORDS[Christmas]
KeywordsChristmas ==
  << [bl |-> TRUE, br |-> TRUE, alts |-> {<<"christmas">>}],
     [bl |-> TRUE, br |-> TRUE, alts |->
          {<<"x", " ", "mas">>, <<"x", "-", "mas">>, <<"xmas">>}],
     [bl |-> TRUE, br |-> TRUE, alts |-> {<<"holiday", " ", "special">>}],
     [bl |-> TRUE, br |-> TRUE, alts |-> {<<"santa">>}],
     [bl |-> TRUE, br |-> TRUE, alts |->
          {<<"st", " ", "nick">>, <<"st", ".", " ", "nick">>,
           <<"st", ".", "nick">>, <<"stnick">>}],
     [bl |-> TRUE, br |-> TRUE, alts |-> {<<"kris", " ", "kringle">>}],
     [bl |-> TRUE, br |-> TRUE, alts |-> {<<"north", " ", "pole">>}],
     [bl |-> TRUE, br |-> TRUE, alts |->
          {<<"mrs", " ", "claus">>, <<"mrs", ".", " ", "claus">>,
           <<"mrs", ".", "claus">>, <<"mrsclaus">>}],
     [bl |-> TRUE, br |-> TRUE, alts |-> {<<"mistletoe">>}],
     [bl |-> TRUE, br |-> TRUE, alts |-> {<<"yuletide">>}],
     [bl |-> TRUE, br |-> TRUE, alts |-> {<<"elf">>}],
     [bl |-> TRUE, br |-> TRUE, alts |-> {<<"reindeer">>}],
     [bl |-> TRUE, br |-> TRUE, alts |-> {<<"frosty">>}],
     [bl |-> TRUE, br |-> TRUE, alts |-> {<<"snow">>, <<"snowman">>}],
     [bl |-> TRUE, br |-> TRUE, alts |-> {<<"sleigh">>}],
     [bl |-> TRUE, br |-> TRUE, alts |->
          {<<"jingle", " ", "bell">>, <<"jingle", " ", "bells">>}],
     [bl |-> TRUE, br |-> TRUE, alts |-> {<<"nativity">>}],
     [bl |-> TRUE, br |-> TRUE, alts |-> {<<"carol">>}],
     [bl |-> TRUE, br |-> TRUE, alts |-> {<<"gift">>, <<"gifts">>}],
     [bl |-> TRUE, br |-> TRUE, alts |-> {<<"present">>, <<"presents">>}],
     [bl |-> TRUE, br |-> TRUE, alts |-> {<<"secret", " ", "santa">>}],
     [bl |-> TRUE, br |-> TRUE, alts |-> {<<"holiday", " ", "party">>}] >>

\* CURATED_KEYWORDS[Valentine's]
KeywordsValentines ==
  << [bl |-> TRUE, br |-> TRUE, alts |->
          {<<"valentine">>, <<"valentine", "'">>, <<"valentine", "'", "s">>,
           <<"valentines">>}],
     [bl |-> TRUE, br |-> TRUE, alts |-> {<<"cupid">>}],
     [bl |-> TRUE, br |-> TRUE, alts |-> {<<"romance">>}],
     [bl |-> TRUE, br |-> TRUE, alts |-> {<<"sweetheart">>}],
     [bl |-> TRUE, br |-> TRUE, alts |->
          {<<"be", " ", "my", " ", "valentine">>}],
     [bl |-> TRUE, br |-> TRUE, alts |->
          {<<"heart", " ", "day">>, <<"heart", "-", "day">>, <<"heartday">>}],
     [bl |-> TRUE, br |-> TRUE, alts |-> {<<"date", " ", "night">>}],
     [bl |-> TRUE, br |-> TRUE, alts |-> {<<"secret", " ", "admirer">>}],
     [bl |-> TRUE, br |-> TRUE, alts |-> {<<"proposal">>}],
     [bl |-> TRUE, br |-> TRUE, alts |-> {<<"chocolate">>}],
     [bl |-> TRUE, br |-> TRUE, alts |->
          {<<"ros">>, <<"rose">>, <<"roses">>, <<"ross">>}],
     [bl |-> TRUE, br |-> TRUE, alts |->
          {<<"candy", " ", "heart">>, <<"candy", " ", "hearts">>}] >>

\* EXCLUDE_PATTERNS
EXCLUDE_PATTERNS ==
  << [bl |-> TRUE, br |-> TRUE, alts |-> {<<"christmas", " ", "island">>}],
     [bl |-> TRUE, br |-> TRUE, alts |->
          {<<"turkey", " ", "buzzard">>, <<"turkey", " ", "sandwich">>,
           <<"turkey", " ", "shootout">>, <<"turkey", " ", "vulture">>}],
     [bl |-> TRUE, br |-> TRUE, alts |-> {<<"black", " ", "friday">>}],
     [bl |-> TRUE, br |-> TRUE, alts |-> {<<"talking", " ", "turkey">>}],
     [bl |-> TRUE, br |-> TRUE, alts |-> {<<"cold", " ", "turkey">>}],
     [bl |-> TRUE, br |-> TRUE, alts |->
          {<<"ghostbuster">>, <<"ghostbusters">>, <<"ghostship">>,
           <<"ghoststory">>, <<"ghosttown">>, <<"ghostwriter">>}],
     [bl |-> TRUE, br |-> TRUE, alts |->
          {<<"monster", " ", "inc">>, <<"monsterenergy">>, <<"monsterhigh">>,
           <<"monsterhunter">>, <<"monsters", " ", "inc">>,
           <<"monstertruck">>}],
     [bl |-> TRUE, br |-> TRUE, alts |->
          {<<"spooky", " ", "action">>, <<"spooky", " ", "distance">>}],
     [bl |-> TRUE, br |-> TRUE, alts |->
          {<<"haunted", " ", "house", " ", "attraction">>,
           <<"haunted", " ", "house", " ", "party">>,
           <<"haunted", " ", "house", " ", "ride">>,
           <<"haunted", " ", "mansion", " ", "attraction">>,
           <<"haunted", " ", "mansion", " ", "party">>,
           <<"haunted", " ", "mansion", " ", "ride">>}],
     [bl |-> TRUE, br |-> TRUE, alts |->
          {<<"candy", " ", "cane">>, <<"candy", " ", "crush">>,
           <<"candy", " ", "factory">>, <<"candy", " ", "land">>,
           <<"candy", " ", "shop">>, <<"candy", " ", "store">>}],
     [bl |-> TRUE, br |-> TRUE, alts |->
          {<<"skeleton", " ", "coast">>, <<"skeleton", " ", "crew">>,
           <<"skeleton", " ", "key">>}],
     [bl |-> TRUE, br |-> TRUE, alts |->
          {<<"witch", " ", "doctor">>, <<"witch", " ", "hazel">>}],
     [bl |-> TRUE, br |-> TRUE, alts |->
          {<<"pumpkin", " ", "bread">>, <<"pumpkin", " ", "head">>,
           <<"pumpkin", " ", "patch">>, <<"pumpkin", " ", "pie">>,
           <<"pumpkin", " ", "seed">>, <<"pumpkin", " ", "seeds">>,
           <<"pumpkin", " ", "spice">>}],
     [bl |-> TRUE, br |-> TRUE, alts |->
          {<<"costume", " ", "contest">>, <<"costume", " ", "designer">>,
           <<"costume", " ", "drama">>, <<"costume", " ", "party">>,
           <<"costume", " ", "shop">>}],
     [bl |-> TRUE, br |-> TRUE, alts |->
          {<<"zombie", " ", "apocalypse">>, <<"zombie", " ", "horde">>,
           <<"zombie", " ", "infection">>, <<"zombie", " ", "outbreak">>,
           <<"zombie", " ", "virus">>}] >>

\* strongPatterns[Halloween]
StrongHalloween ==
  << [bl |-> TRUE, br |-> TRUE, alts |-> {<<"halloween">>, <<"hallowen">>}],
     [bl |-> FALSE, br |-> FALSE, alts |->
          {<<"treehouse", " ", "of", " ", "horror">>}],
     [bl |-> FALSE, br |-> FALSE, alts |-> {<<"october", " ", "31">>}],
     [bl |-> FALSE, br |-> FALSE, alts |-> {<<"all", " ", "hallows">>}] >>

\* strongPatterns[Thanksgiving]
StrongThanksgiving ==
  << [bl |-> TRUE, br |-> TRUE, alts |-> {<<"thanksgiving">>}],
     [bl |-> TRUE, br |-> TRUE, alts |-> {<<"friendsgiving">>}],
     [bl |-> FALSE, br |-> FALSE, alts |-> {<<"turkey", " ", "day">>}] >>

\* strongPatterns[Christmas]
StrongChristmas ==
  << [bl |-> TRUE, br |-> TRUE, alts |-> {<<"christmas">>}],
     [bl |-> TRUE, br |-> TRUE, alts |->
          {<<"x", " ", "mas">>, <<"x", "-", "mas">>, <<"xmas">>}],
     [bl |-> FALSE, br |-> FALSE, alts |-> {<<"december", " ", "25">>}],
     [bl |-> FALSE, br |-> FALSE, alts |-> {<<"santa">>}],
     [bl |-> FALSE, br |-> FALSE, alts |-> {<<"ho", " ", "ho", " ", "ho">>}],
     [bl |-> TRUE, br |-> TRUE, alts |-> {<<"elf">>}],
     [bl |-> TRUE, br |-> TRUE, alts |-> {<<"reindeer">>}],
     [bl |-> TRUE, br |-> TRUE, alts |-> {<<"north", " ", "pole">>}] >>

\* strongPatterns[Valentine's]
StrongValentines ==
  << [bl |-> TRUE, br |-> TRUE, alts |->
          {<<"valentine">>, <<"valentine", "'">>, <<"valentine", "'", "s">>,
           <<"valentines">>}],
     [bl |-> FALSE, br |-> FALSE, alts |-> {<<"february", " ", "14">>}],
     [bl |-> FALSE, br |-> FALSE, alts |-> {<<"cupid">>}] >>

\* Object.keys(CURATED_KEYWORDS)
MatcherHolidays == << "Halloween", "Thanksgiving", "Christmas", "Valentine's" >>

CURATED_KEYWORDS ==
  [ h \in { MatcherHolidays[i] : i \in 1..Len(MatcherHolidays) } |->
      CASE h = "Halloween" -> KeywordsHalloween
        [] h = "Thanksgiving" -> KeywordsThanksgiving
        [] h = "Christmas" -> KeywordsChristmas
        [] h = "Valentine's" -> KeywordsValentines ]

getStrongIndicators(holiday) ==
  CASE holiday = "Halloween" -> StrongHalloween
    [] holiday = "Thanksgiving" -> StrongThanksgiving
    [] holiday = "Christmas" -> StrongChristmas
    [] holiday = "Valentine's" -> StrongValentines
    [] OTHER -> << >>

\* The table of canonical (title, year) pairs per holiday.
REQUIRED_MOVIES ==
  [ h \in { MatcherHolidays[i] : i \in 1..Len(MatcherHolidays) } |->
      CASE h = "Christmas" ->
             << [title |-> <<"a", " ", "christmas", " ", "carol">>, year |-> 2009],
                [title |-> <<"the", " ", "grinch">>, year |-> 2009] >>
        [] h = "Halloween" ->
             << [title |-> <<"the", " ", "nightmare", " ", "before", " ", "christmas">>,
                 year |-> 1993] >>
        [] OTHER -> << >> ]

\* ---------------------------------------------------------- HolidayMatcher
\* 'grandparentTitle' in media && 'seasonNumber' in media && 'index' in media
isPlexEpisode(media) == media.type = "episode"

\* title.replace(/[.*+?^${}()|[\]\\]/g, '\\$&') wrapped in \b...\b: the
\* title, letter for letter (a blank stays one blank)
TitlePattern(title) == [bl |-> TRUE, br |-> TRUE, alts |-> {title}]

\* this.includePatterns.get(holiday) of a matcher built with additionalTitles
includePatterns(additionalTitles, holiday) ==
  LET scrapedTitles == IF holiday \in DOMAIN additionalTitles
                       THEN additionalTitles[holiday] ELSE << >>
  IN  IF holiday \in DOMAIN CURATED_KEYWORDS
      THEN CURATED_KEYWORDS[holiday] \o
           [ i \in 1..Len(scrapedTitles) |-> TitlePattern(scrapedTitles[i]) ]
      ELSE << >>

excludePatterns == EXCLUDE_PATTERNS

Excluded(media) ==
  \E i \in 1..Len(excludePatterns) :
    Test(excludePatterns[i], media.title) \/ Test(excludePatterns[i], media.summary)

\* Variant: only the first strong indicator of the holiday is tested.
IndicatorIn_FirstOnly(holiday, text) ==
  /\ Len(getStrongIndicators(holiday)) > 0
  /\ Test(getStrongIndicators(holiday)[1], text)

\* new RegExp(indicator, 'i').test(text) for some strong indicator of holiday
IndicatorIn(holiday, text) ==
  \E i \in 1..Len(getStrongIndicators(holiday)) :
    Test(getStrongIndicators(holiday)[i], text)

\* Variant: the summary is searched as well.
SuppressedBy_TitleOrSummary(media, otherHoliday) ==
  IndicatorIn(otherHoliday, media.title) \/ IndicatorIn(otherHoliday, media.summary)

\* the inner loop of the cross-holiday exclusion
SuppressedBy(media, otherHoliday) == IndicatorIn(otherHoliday, media.title)

\* Variant: only the holidays after the asked one are looked at.
CrossHoliday_LaterOnly(media, holiday) ==
  \E j, k \in 1..Len(MatcherHolidays) :
    /\ MatcherHolidays[k] = holiday
    /\ j > k
    /\ SuppressedBy(media, MatcherHolidays[j])

CrossHoliday(media, holiday) ==
  \E j \in 1..Len(MatcherHolidays) :
    /\ MatcherHolidays[j] # holiday
    /\ SuppressedBy(media, MatcherHolidays[j])

\* number of patterns of a list matching the title, and matching the summary
\* but not the title
TitleHits(pats, media) ==
  Cardinality({ i \in 1..Len(pats) : Test(pats[i], media.title) })

SummaryHits(pats, media) ==
  Cardinality({ i \in 1..Len(pats) :
                  ~Test(pats[i], media.title) /\ Test(pats[i], media.summary) })

\* a scoring loop over the first n patterns of a list: score += inTitle when
\* the pattern matches the title, else score += inSummary when it matches the
\* summary
RECURSIVE Accumulate(_, _, _, _, _)
Accumulate(pats, media, n, inTitle, inSummary) ==
  IF n = 0 THEN 0
  ELSE Accumulate(pats, media, n - 1, inTitle, inSummary)
       + (IF Test(pats[n], media.title) THEN inTitle
          ELSE IF Test(pats[n], media.summary) THEN inSummary
          ELSE 0)

\* Variant: the score stops at the upper end of the threshold scale.
IncludeScore_Capped(additionalTitles, media, holiday) ==
  LET patterns == includePatterns(additionalTitles, holiday)
      strongIndicators == getStrongIndicators(holiday)
      score == Accumulate(patterns, media, Len(patterns), TitleWeight, SummaryWeight)
               + Accumulate(strongIndicators, media, Len(strongIndicators),
                            StrongTitleWeight, StrongSummaryWeight)
  IN  IF score > ThresholdMax THEN ThresholdMax ELSE score

\* the score of an item that is not vetoed: the include patterns, then the
\* strong indicators of the holiday
IncludeScore(additionalTitles, media, holiday) ==
  LET patterns == includePatterns(additionalTitles, holiday)
      strongIndicators == getStrongIndicators(holiday)
  IN  Accumulate(patterns, media, Len(patterns), TitleWeight, SummaryWeight)
      + Accumulate(strongIndicators, media, Len(strongIndicators),
                   StrongTitleWeight, StrongSummaryWeight)

\* Variant: the exclude patterns are not consulted.
getMatchScore_NoExcludeVeto(additionalTitles, media, holiday) ==
  IF CrossHoliday(media, holiday) THEN 0
  ELSE IncludeScore(additionalTitles, media, holiday)

getMatchScore(additionalTitles, media, holiday) ==
  IF Excluded(media) THEN 0
  ELSE IF CrossHoliday(media, holiday) THEN 0
  ELSE IncludeScore(additionalTitles, media, holiday)

RECURSIVE DropLeadingBlanks(_)
DropLeadingBlanks(t) ==
  IF Len(t) > 0 /\ Head(t) = " " THEN DropLeadingBlanks(Tail(t)) ELSE t

\* .replace(/^(the|a|an)\s+/i, '')
StripArticle(t) ==
  IF Len(t) >= 2 /\ t[1] \in {"the", "a", "an"} /\ t[2] = " "
  THEN DropLeadingBlanks(Tail(t))
  ELSE t

\* .replace(/[:\-...]/g, ' ')
PunctuationToBlank(t) ==
  [ i \in 1..Len(t) |-> IF t[i] \in {":", "-"} THEN " " ELSE t[i] ]

\* .replace(/\s+/g, ' ')
RECURSIVE CollapseBlanks(_)
CollapseBlanks(t) ==
  IF Len(t) < 2 THEN t
  ELSE IF t[1] = " " /\ t[2] = " " THEN CollapseBlanks(Tail(t))
  ELSE << t[1] >> \o CollapseBlanks(Tail(t))

\* .trim()
Trim(t) ==
  LET l == DropLeadingBlanks(t)
  IN  IF Len(l) > 0 /\ l[Len(l)] = " " THEN SubSeq(l, 1, Len(l) - 1) ELSE l

NormalizeTitle(t) == Trim(CollapseBlanks(PunctuationToBlank(StripArticle(t))))

\* year 0 stands for a missing year (media.year undefined)
RequiredEntryMatches(media, required) ==
  \/ media.title = required.title /\ media.year = required.year
  \/ /\ media.title = required.title
     /\ media.year # 0
     /\ media.year - required.year <= YearTolerance
     /\ required.year - media.year <= YearTolerance
  \/ /\ NormalizeTitle(media.title) = NormalizeTitle(required.title)
     /\ media.year = required.year

isRequiredMovie(media, holiday) ==
  IF isPlexEpisode(media) THEN FALSE
  ELSE LET requiredList ==
             IF holiday \in DOMAIN REQUIRED_MOVIES
             THEN REQUIRED_MOVIES[holiday] ELSE << >>
       IN  \E i \in 1..Len(requiredList) :
             RequiredEntryMatches(media, requiredList[i])

isMatch(additionalTitles, media, holiday) ==
  IF isRequiredMovie(media, holiday) THEN TRUE
  ELSE getMatchScore(additionalTitles, media, holiday) >= MatchThreshold

\* Variant: the score has to exceed the threshold.
Listed_Strict(additionalTitles, item, threshold, holiday) ==
  \/ isRequiredMovie(item, holiday)
  \/ getMatchScore(additionalTitles, item, holiday) > threshold

Listed(additionalTitles, item, threshold, holiday) ==
  \/ isRequiredMovie(item, holiday)
  \/ getMatchScore(additionalTitles, item, holiday) >= threshold

\* the HolidayMatch of one holiday, before the test for emptiness
HolidayMatchOf(additionalTitles, media, threshold, holiday) ==
  LET hit(item) == Listed(additionalTitles, item, threshold, holiday)
      ep(item) == hit(item) /\ isPlexEpisode(item)
      mv(item) == hit(item) /\ ~isPlexEpisode(item)
  IN  [ holiday |-> holiday,
        episodes |-> SelectSeq(media, ep),
        movies |-> SelectSeq(media, mv) ]

findMatchesWithThreshold(additionalTitles, media, threshold, holidaysToCheck) ==
  LET all == [ i \in 1..Len(holidaysToCheck) |->
                 HolidayMatchOf(additionalTitles, media, threshold,
                                holidaysToCheck[i]) ]
      nonEmpty(m) == Len(m.episodes) > 0 \/ Len(m.movies) > 0
  IN  SelectSeq(all, nonEmpty)

findMatches(additionalTitles, media) ==
  findMatchesWithThreshold(additionalTitles, media, MatchThreshold,
                           MatcherHolidays)

\* summary[holiday] = media.filter(item => this.isMatch(item, holiday)).length
getMatchSummary(additionalTitles, media) ==
  LET hit(holiday) == LET f(item) == isMatch(additionalTitles, item, holiday)
                      IN  Len(SelectSeq(media, f))
  IN  [ holiday \in { MatcherHolidays[i] : i \in 1..Len(MatcherHolidays) } |->
          hit(holiday) ]

\* ------------------------------------------------- matcher inputs and state
Titles ==
  { <<"christmas", " ", "island">>,
    <<"a", " ", "christmas", " ", "carol">>,
    <<"a", " ", "christmas", "-", "carol">>,
    <<"the", " ", "grinch">>,
    <<"grinch">>,
    <<"halloween">>,
    <<"santana", " ", "live">>,
    <<"turkey", " ", "parade">>,
    <<"christmas", " ", "halloween">>,
    <<"love", " ", "story">>,
    <<"pumpkin", " ", "spice">>,
    <<"cold", " ", "turkey">>,
    <<"valentine", "'", "s", " ", "day">> }

Summaries ==
  { << >>,
    <<"a", " ", "christmas", " ", "story">>,
    <<"candy", " ", "cane", " ", "fun">>,
    <<"turkey", " ", "day", " ", "feast">>,
    <<"santa", " ", "visits">> }

MovieTitles ==
  { <<"a", " ", "christmas", " ", "carol">>,
    <<"a", " ", "christmas", "-", "carol">>,
    <<"the", " ", "grinch">>,
    <<"grinch">>,
    <<"christmas", " ", "island">>,
    <<"love", " ", "story">> }

MovieSummaries == { << >>, <<"candy", " ", "cane", " ", "fun">> }

\* release years of the movies of the library; 0: no year in the metadata
Years == {0, 2009, 2010, 2011}

PlexItem(key, type, title, summary, year) ==
  [ key |-> key, type |-> type, title |-> title, summary |-> summary,
    year |-> year ]

PlexEpisodes ==
  { PlexItem("k1", "episode", t, s, 0) : t \in Titles, s \in Summaries }

PlexMovies ==
  UNION { { PlexItem("k1", "movie", t, s, y) : t \in MovieTitles, s \in MovieSummaries }
          : y \in Years }

\* the items that are put second in a library of two
SecondItems ==
  { PlexItem("k2", "episode", <<"halloween">>, << >>, 0),
    PlexItem("k2", "episode", <<"christmas", " ", "island">>, << >>, 0),
    PlexItem("k2", "movie", <<"the", " ", "grinch">>, << >>, 2009),
    PlexItem("k2", "movie", <<"love", " ", "story">>, << >>, 2010) }

FirstItems ==
  { PlexItem("k1", "episode", <<"a", " ", "christmas", " ", "carol">>, << >>, 0),
    PlexItem("k1", "episode", <<"turkey", " ", "parade">>,
             <<"santa", " ", "visits">>, 0),
    PlexItem("k1", "movie", <<"grinch">>, <<"candy", " ", "cane", " ", "fun">>, 2009),
    PlexItem("k1", "movie", <<"love", " ", "story">>, << >>, 2010) }

\* movies of the required-title table of one holiday that name another
CrossoverMovies ==
  { PlexItem("k1", "movie",
             <<"the", " ", "nightmare", " ", "before", " ", "christmas">>, s, 1993)
      : s \in MovieSummaries }

\* items whose metadata has no title
UntitledItems ==
  { PlexItem("k1", "episode", << >>, s, 0) : s \in Summaries }

\* items whose title names two holidays
TwoHolidayItems ==
  { PlexItem("k1", type, t, s, 0) :
      type \in {"episode", "movie"},
      t \in { <<"santa", " ", "halloween">>,
               <<"halloween", " ", "turkey", " ", "day">> },
      s \in { << >>, <<"santa", " ", "visits">> } }

Libraries ==
  { << m >> : m \in PlexEpisodes \cup PlexMovies \cup CrossoverMovies
                    \cup UntitledItems \cup TwoHolidayItems }
  \cup { << a, b >> : a \in FirstItems, b \in SecondItems }

\* titles handed to the constructor of the matcher (scraped from Wikipedia)
NoTitles ==
  [ h \in { MatcherHolidays[i] : i \in 1..Len(MatcherHolidays) } |-> << >> ]

AdditionalTitleChoices ==
  { NoTitles, [NoTitles EXCEPT !["Christmas"] = << <<"love", " ", "story">> >>] }

Thresholds == { ThresholdMin, MatchThreshold, ThresholdMax }

\* selectedHolidays as the array the loop runs over; absent: all four
HolidaysToCheckChoices ==
  { MatcherHolidays, << "Christmas" >>, << "Thanksgiving", "Halloween" >> }

\* A matcher, the library it is asked about, the call made on it (op) and
\* what the call returned.
IdleMatcher ==
  [ op |-> "none", additionalTitles |-> NoTitles, media |-> << >>, item |-> 0,
    holiday |-> Null, threshold |-> 0, holidaysToCheck |-> << >>,
    score |-> 0, matched |-> FALSE, matches |-> << >>, summary |-> << >> ]

\* The PlaylistCreator component: step of the wizard, position of a running
\* analyzeLibraries (phase), its locals, what it handed to the Plex client
\* (output) and the previews it set; plex holds the playlists of the server.
\* ------------------------------------------------------------- PlexProvider
\* no PlexClient, no stored server, no error message
NoServer == "none"

\* the servers a user connects to
PlexServers == {"plex-a", "plex-b"}

ConnectCalls == 1..MaxConnects

\* a connect call: idle, or awaiting newClient.testConnection() for its
\* server; overtaken: disconnect ran while the call was awaiting
IdleConnect == [pc |-> "idle", server |-> NoServer, overtaken |-> FALSE]

\* The state of the provider (client is the server its PlexClient was built
\* for), localStorage['plex-server'] and the connect calls; byOvertaken: the
\* client was set by a call that disconnect had overtaken.
IdleConnection ==
  [ client |-> NoServer, isConnected |-> FALSE, isLoading |-> FALSE,
    error |-> FALSE, stored |-> NoServer, byOvertaken |-> FALSE,
    calls |-> [c \in ConnectCalls |-> IdleConnect] ]

IdleCreator ==
  [ step |-> "holidays", phase |-> "none", selectedHolidays |-> << >>,
    confidenceThreshold |-> MatchThreshold, allMedia |-> << >>,
    aiResults |-> << >>, idx |-> 0, output |-> {}, previews |-> << >>,
    plex |-> {}, conn |-> IdleConnection ]

\* --------------------------------------------------------- WikipediaScraper
\* A Map<Holiday, string[]> is a function from the holidays it holds to their
\* lists of titles; new Map() holds none.
EmptyMap == << >>

\* selectedHolidays?: Set<Holiday>
NoSelection == [given |-> FALSE, holidays |-> {}]

Selection(holidays) == [given |-> TRUE, holidays |-> holidays]

\* !selectedHolidays || selectedHolidays.has(holiday)
Selected(selectedHolidays, holiday) ==
  ~selectedHolidays.given \/ holiday \in selectedHolidays.holidays

\* the entries of a map of titles that a call with selectedHolidays returns
Restrict(titles, selectedHolidays) ==
  [ h \in { k \in DOMAIN titles : Selected(selectedHolidays, k) } |-> titles[h] ]

\* this.cache: null, or the arrays under the keys wiki_titles::<holiday>
NoCache == [loaded |-> FALSE, titles |-> EmptyMap]

CacheOf(titles) == [loaded |-> TRUE, titles |-> titles]

\* localStorage['wiki-holiday-titles']: absent, the JSON of a CacheData
\* written less (fresh) or more (stale) than SCRAPE_CACHE_TTL ago, or text
\* that JSON.parse rejects
NoStorage == [state |-> "none", titles |-> EmptyMap]

loadCache(storage) ==
  IF storage.state = "fresh" THEN CacheOf(storage.titles) ELSE NoCache

\* the body of a response of /api/scrape-wikipedia: per key an array of
\* titles or something else (_metadata)
ArrayEntries(data) ==
  [ h \in { k \in DOMAIN data : k # "_metadata" /\ data[k].isArray } |->
      data[h].titles ]

ScrapedLoveStory ==
  ( "Christmas" :> [isArray |-> TRUE, titles |-> << <<"love", " ", "story">> >>] @@
    "Halloween" :> [isArray |-> TRUE, titles |-> << <<"grinch">> >>] @@
    "_metadata" :> [isArray |-> FALSE, titles |-> << >>] )

ScrapedNothing ==
  ( "Christmas" :> [isArray |-> TRUE, titles |-> << >>] @@
    "Easter" :> [isArray |-> FALSE, titles |-> << >>] )

\* what the fetch of /api/scrape-wikipedia comes to: the promise rejects
\* (network), response.ok is false, response.json() rejects (malformed body),
\* the body carries an error, or the body is data
ScrapeOutcomes ==
  { [kind |-> k, data |-> EmptyMap] : k \in {"reject", "status", "malformed", "error"} }
  \cup { [kind |-> "ok", data |-> d] : d \in {ScrapedLoveStory, ScrapedNothing} }

ScrapeFailures == {"reject", "status", "malformed", "error"}

StoredTitles ==
  { ( "Christmas" :> << <<"love", " ", "story">> >> ),
    ( "Halloween" :> << <<"grinch">> >> ) }

StorageChoices ==
  { NoStorage, [state |-> "corrupt", titles |-> EmptyMap] }
  \cup { [state |-> st, titles |-> t] : st \in {"fresh", "stale"}, t \in StoredTitles }

ScrapeSelections == { NoSelection, Selection({"Christmas"}) }

\* /api/scrape-wikipedia ------------------------------------------------
\* WIKI_SOURCES: the source pages of each holiday
WIKI_SOURCES ==
  ( "Halloween" :> << "halloween-list", "halloween-specials", "halloween-episodes" >> @@
    "Thanksgiving" :> << "thanksgiving-list", "thanksgiving-specials" >> @@
    "Christmas" :> << "christmas-list", "christmas-us-episodes",
                      "christmas-us-specials", "christmas-lists" >> @@
    "Valentine's" :> << "valentines-list", "valentines-specials" >> )

\* Object.entries(WIKI_SOURCES)
WikiHolidays == << "Halloween", "Thanksgiving", "Christmas", "Valentine's" >>

\* the normalized titles a source page yields when it can be fetched
PageTitles(url) ==
  CASE url = "christmas-list" -> { <<"love", " ", "story">> }
    [] url = "christmas-us-episodes" -> { <<"grinch">>, <<"love", " ", "story">> }
    [] url = "halloween-list" -> { <<"grinch">> }
    [] url = "thanksgiving-list" -> { <<"turkey", " ", "parade">> }
    [] OTHER -> { <<"love", " ", "story">> }

\* scrapeTitlesFromUrl: the titles of the page, the empty set when the
\* request or the parsing fails
scrapeTitlesFromUrl(url, down) ==
  IF url \in down THEN {} ELSE PageTitles(url)

\* the titles of the pages in the order of Array.prototype.sort
SortedTitles ==
  << <<"grinch">>, <<"love", " ", "story">>, <<"turkey", " ", "parade">> >>

\* Array.from(allTitles).sort()
SortTitles(allTitles) ==
  SelectSeq(SortedTitles, LAMBDA t : t \in allTitles)

\* the module-level cache of the route: the arrays under the keys
\* wiki_titles::<holiday>, and whether _timestamp is set
NoServerCache == [titles |-> EmptyMap, stamped |-> FALSE]

\* cache[cacheKey] && typeof cache._timestamp === 'number'
\*   && (timestamp - cache._timestamp < CACHE_DURATION); an array is truthy
CacheHit(cache, holiday, fresh) ==
  /\ holiday \in DOMAIN cache.titles
  /\ cache.stamped
  /\ fresh

\* the loop of GET over the first n holidays: the results object and the
\* cache entries written
RECURSIVE ScrapeLoop(_, _, _, _)
ScrapeLoop(cache, n, down, fresh) ==
  IF n = 0 THEN [results |-> EmptyMap, titles |-> cache.titles]
  ELSE LET r == ScrapeLoop(cache, n - 1, down, fresh)
           holiday == WikiHolidays[n]
           urls == WIKI_SOURCES[holiday]
           allTitles == UNION { scrapeTitlesFromUrl(urls[i], down) : i \in 1..Len(urls) }
           titleArray == SortTitles(allTitles)
       IN  IF CacheHit(cache, holiday, fresh)
           THEN [r EXCEPT !.results = (holiday :> cache.titles[holiday]) @@ @]
           ELSE [results |-> (holiday :> titleArray) @@ r.results,
                 titles |-> (holiday :> titleArray) @@ r.titles]

\* GET: the body of the response and the cache afterwards
ScrapeWikipedia(cache, skipScrape, down, fresh) ==
  IF skipScrape THEN [cache |-> cache, body |-> EmptyMap]
  ELSE LET r == ScrapeLoop(cache, Len(WikiHolidays), down, fresh)
       IN  [ cache |-> [titles |-> r.titles, stamped |-> TRUE],
             body |-> [ k \in DOMAIN r.results \cup {"_metadata"} |->
                          IF k = "_metadata"
                          THEN [isArray |-> FALSE, titles |-> << >>]
                          ELSE [isArray |-> TRUE, titles |-> r.results[k]] ] ]

\* A scraper: its cache, the localStorage of the browser, the scrapeTitles
\* call made on it (phase), how its fetch ended (outcome) and what the call
\* returned; server is the cache of the route the scraper fetches from.
IdleScraper ==
  [ phase |-> "idle", storage |-> NoStorage, cache |-> NoCache,
    skipScrape |-> FALSE, selectedHolidays |-> NoSelection, outcome |-> "none",
    result |-> EmptyMap, server |-> NoServerCache ]

\* ------------------------------------------------------------------ state
VARIABLES
  configured,          \* AZURE_OPENAI_KEY and AZURE_OPENAI_ENDPOINT are set
  media_items,         \* rows of table media_items
  ai_classifications,  \* rows of table ai_classifications
  ai_response_cache,   \* rows of table ai_response_cache
  call,                \* call[p]: the classify call process p is executing
  run,                 \* run[p]: the bulk-classify request process p is serving
  hist,                \* hist[p]: what the current call of p has done so far
  firstPayload,        \* firstPayload[k]: payload of the first cache write for k
  ncalls,              \* classify calls and bulk requests counted against MaxCalls
  pm,                  \* the HolidayMatcher call under examination and its result
  ui,                  \* state of the PlaylistCreator component
  wiki                 \* the WikipediaScraper and the scrapeTitles call on it

vars ==
  << configured, media_items, ai_classifications, ai_response_cache, call, run,
     hist, firstPayload, ncalls, pm, ui, wiki >>

\* the browser side and the pattern matcher, which the server side never touches
front == << pm, ui, wiki >>

store == << media_items, ai_classifications, ai_response_cache >>

\* Local variables of a classify call.  Variables the code no longer reads
\* (retries after the loop is left, the locals of a finished call) are reset.
IdleCall ==
  [ pc |-> "idle", media |-> Null, retries |-> 0, retryDelay |-> 0,
    result |-> << >>, mediaItemId |-> 0, i |-> 0, filtered |-> FALSE,
    fromCache |-> FALSE, inserted |-> FALSE, ret |-> << >>, error |-> NoError ]

\* Bookkeeping of the current call of a process:
\*   after       processes whose classify of the same item had returned, and
\*               was their latest call, when this call started
\*   rowAtCheck, readFailed   the cache lookup of the call, kept until the
\*               first backend answer
\*   attempts    backend requests sent, kept while the retry loop runs
\*   wrote       tables the call inserted a row into, kept until it finishes
NewHist(after) ==
  [ after |-> after, rowAtCheck |-> FALSE, readFailed |-> FALSE,
    attempts |-> 0, wrote |-> {} ]

Finished(c) == c.pc \in {"idle", "returned", "threw"}

InRetryLoop(c) == c.pc \in {"create", "sleep"}

\* The bookkeeping h of a call whose local state has become c.
Keep(h, c) ==
  IF Finished(c) THEN [h EXCEPT !.attempts = 0, !.wrote = {}]
  ELSE IF InRetryLoop(c) THEN h
  ELSE [h EXCEPT !.attempts = 0]

\* Local variables and response of a bulk-classify request.  status is none
\* (no request), read (awaiting the bulk lookup), classify (in the AI loop),
\* ok (success response), error400 or error500.  results is resultsMap, a
\* set of [key, holidays] entries with one entry per key.
\* The other loops over classify use the same locals: classifyBatch (status
\* batch, batchDelay, batchDone), the ai-scan request (scan, scanOk) with
\* resultsByHoliday, processed and rateLimitHits, and findMatchesWithAI
\* (matchAI, matchDone) with holidaysToCheck and matchesByHoliday.
IdleRun ==
  [ status |-> "none", media |-> << >>, selectedHolidays |-> {},
    useAI |-> FALSE, readFailed |-> FALSE, cached |-> 0, needs |-> << >>,
    idx |-> 0, classified |-> 0, failed |-> 0, total |-> 0, results |-> {},
    resultsByHoliday |-> << >>, processed |-> 0,
    rateLimitHits |-> 0, holidaysToCheck |-> << >>, matchesByHoliday |-> << >> ]

Running(r) ==
  r.status \in {"read", "classify", "batch", "batchDelay", "scan", "matchAI"}

Init ==
  /\ configured \in BOOLEAN
  /\ media_items = {}
  /\ ai_classifications = {}
  /\ ai_response_cache = {}
  /\ call = [p \in Procs |-> IdleCall]
  /\ run = [p \in Procs |-> IdleRun]
  /\ hist = [p \in Procs |-> NewHist({})]
  /\ firstPayload = [k \in Items |-> [has |-> FALSE, payload |-> << >>]]
  /\ ncalls = 0
  /\ pm = IdleMatcher
  /\ ui = IdleCreator
  /\ wiki = IdleScraper

\* ------------------------------------------------------ classify (one call)
\* classify(media) is entered: the cache query is issued.
BeginClassify(media) ==
  [IdleCall EXCEPT !.pc = "getCachedResult", !.media = media]

\* classify returns value: read from the cache (fromCache), or computed by
\* this call, whose cache row was inserted or ignored as a conflict.
Returned(c, value, fromCache, inserted) ==
  [IdleCall EXCEPT !.pc = "returned", !.media = c.media, !.ret = value,
                   !.filtered = c.filtered, !.fromCache = fromCache,
                   !.inserted = inserted]

Threw(c, err) ==
  [IdleCall EXCEPT !.pc = "threw", !.media = c.media, !.error = err,
                   !.filtered = c.filtered]

\* Variant: the retry guard is retries <= maxRetries.
Catch_OffByOne(c, err) ==
  IF err.status = 400 /\ err.code = "content_filter"
  THEN [c EXCEPT !.pc = "storeMediaItem", !.filtered = TRUE, !.result = << >>,
                 !.retries = 0]
  ELSE IF err.status = 429 /\ c.retries <= maxRetries
  THEN [c EXCEPT !.pc = "sleep", !.retries = @ + 1, !.error = err,
                 !.retryDelay = RetryDelay(c.retries + 1, err)]
  ELSE Threw(c, err)

\* The catch block of classify for an error thrown inside the try block.
Catch(c, err) ==
  IF err.status = 400 /\ err.code = "content_filter"
  THEN [c EXCEPT !.pc = "storeMediaItem", !.filtered = TRUE, !.result = << >>,
                 !.retries = 0]
  ELSE IF err.status = 429 /\ c.retries < maxRetries
  THEN [c EXCEPT !.pc = "sleep", !.retries = @ + 1, !.error = err,
                 !.retryDelay = RetryDelay(c.retries + 1, err)]
  ELSE Threw(c, err)

\* A rejected store query: inside the try block it is caught like any error,
\* inside the content-filter branch of the catch block it leaves classify.
StoreFailure(c) ==
  IF c.filtered THEN Threw(c, DbError) ELSE Catch(c, DbError)

\* Where classify continues once it holds the media item id.
AfterStoreMediaItem(c, id) ==
  IF c.filtered \/ Len(c.result) = 0
  THEN [c EXCEPT !.pc = "cacheResponse", !.mediaItemId = id]
  ELSE [c EXCEPT !.pc = "storeClassifications", !.mediaItemId = id, !.i = 1]

\* Process p enters classify(k): the bookkeeping of p starts afresh and p is
\* no longer a finished call in the bookkeeping of the others.
EnterClassify(p, k) ==
  /\ call' = [call EXCEPT ![p] = BeginClassify(k)]
  /\ hist' = [q \in Procs |->
                IF q = p
                THEN NewHist({ r \in Procs \ {p} :
                                 call[r].pc = "returned" /\ call[r].media = k })
                ELSE [hist[q] EXCEPT !.after = @ \ {p}]]

\* A caller constructs a classifier and invokes classify(media) directly
\* (ai-classify-item, ai-scan, findMatchesWithAI).
ClassifyStart(p, k) ==
  /\ configured
  /\ ~Running(run[p])
  /\ Finished(call[p])
  /\ ncalls < MaxCalls
  /\ EnterClassify(p, k)
  /\ run' = [run EXCEPT ![p] = IdleRun]
  /\ ncalls' = ncalls + 1
  /\ UNCHANGED << front, configured, store, firstPayload >>

\* Variant: the hit test is rows.length > 1.
RowsHit_OffByOne(rows) == Cardinality(rows) > 1

\* result.rows.length > 0
RowsHit(rows) == Cardinality(rows) > 0

\* Variant: the query is not wrapped in try/catch, its error is thrown.
CachedResult_Rethrow(mediaTbl, cacheTbl, key, dbOk) ==
  LET rows == SelectCacheRows(mediaTbl, cacheTbl, key)
  IN IF ~dbOk
     THEN [threw |-> TRUE, hit |-> FALSE, payload |-> << >>]
     ELSE IF RowsHit(rows)
     THEN [threw |-> FALSE, hit |-> TRUE,
           payload |-> (CHOOSE r \in rows : TRUE).response_payload]
     ELSE [threw |-> FALSE, hit |-> FALSE, payload |-> << >>]

\* getCachedResult: the payload of the first row, null (no hit) when there
\* is no row and when the query fails; it never throws.
CachedResult(mediaTbl, cacheTbl, key, dbOk) ==
  LET rows == SelectCacheRows(mediaTbl, cacheTbl, key)
  IN IF dbOk /\ RowsHit(rows)
     THEN [threw |-> FALSE, hit |-> TRUE,
           payload |-> (CHOOSE r \in rows : TRUE).response_payload]
     ELSE [threw |-> FALSE, hit |-> FALSE, payload |-> << >>]

\* Some cache row belongs to the media item with plex key k.
HasCacheRow(k) ==
  \E m \in media_items, c \in ai_response_cache :
    m.plex_key = k /\ c.media_item_id = m.id

\* getCachedResult resolves; on a miss the first backend request is sent.
GetCachedResult(p, dbOk) ==
  LET c == call[p]
      cached == CachedResult(media_items, ai_response_cache, c.media, dbOk)
      c2 == IF cached.threw THEN Threw(c, DbError)
            ELSE IF cached.hit THEN Returned(c, cached.payload, TRUE, FALSE)
            ELSE [c EXCEPT !.pc = "create"]
      h2 == [hist[p] EXCEPT !.rowAtCheck = HasCacheRow(c.media),
                            !.readFailed = ~dbOk,
                            !.attempts = 1]
  IN /\ c.pc = "getCachedResult"
     /\ call' = [call EXCEPT ![p] = c2]
     /\ hist' = [hist EXCEPT ![p] = Keep(h2, c2)]
     /\ UNCHANGED << front, configured, store, run, firstPayload, ncalls >>

\* chat.completions.create settles with outcome out.
BackendRespond(p, out) ==
  LET c == call[p]
      c2 == IF out.kind = "ok"
            THEN [c EXCEPT !.pc = "storeMediaItem", !.retries = 0,
                           !.error = NoError,
                           !.result = MappedHolidays(out.raw)]
            ELSE Catch([c EXCEPT !.error = NoError], out.err)
      h2 == [hist[p] EXCEPT !.rowAtCheck = FALSE, !.readFailed = FALSE]
  IN /\ c.pc = "create"
     /\ call' = [call EXCEPT ![p] = c2]
     /\ hist' = [hist EXCEPT ![p] = Keep(h2, c2)]
     /\ UNCHANGED << front, configured, store, run, firstPayload, ncalls >>

\* Variant: the counter is decremented when the loop is re-entered.
Wake_ForgetsRetry(p) ==
  LET c == call[p]
  IN /\ c.pc = "sleep"
     /\ call' = [call EXCEPT ![p] =
                   [c EXCEPT !.pc = "create", !.retries = @ - 1,
                             !.retryDelay = 0, !.error = NoError]]
     /\ hist' = [hist EXCEPT ![p].attempts = @ + 1]
     /\ UNCHANGED << front, configured, store, run, firstPayload, ncalls >>

\* The backoff timer fires: the loop continues with the next request.
Wake(p) ==
  LET c == call[p]
  IN /\ c.pc = "sleep"
     /\ call' = [call EXCEPT ![p] =
                   [c EXCEPT !.pc = "create", !.retryDelay = 0, !.error = NoError]]
     /\ hist' = [hist EXCEPT ![p].attempts = @ + 1]
     /\ UNCHANGED << front, configured, store, run, firstPayload, ncalls >>

\* storeMediaItem: the INSERT ... RETURNING id.
StoreMediaItem(p, dbOk) ==
  LET c == call[p]
      tbl == InsertMediaItem(media_items, c.media)
      inserted == tbl \ media_items
      c2 == IF ~dbOk THEN StoreFailure(c)
            ELSE IF inserted = {} THEN [c EXCEPT !.pc = "selectExisting"]
            ELSE AfterStoreMediaItem(c, (CHOOSE r \in inserted : TRUE).id)
      h2 == IF dbOk /\ inserted # {}
            THEN [hist[p] EXCEPT !.wrote = @ \cup {"media_items"}]
            ELSE hist[p]
  IN /\ c.pc = "storeMediaItem"
     /\ media_items' = IF dbOk THEN tbl ELSE media_items
     /\ call' = [call EXCEPT ![p] = c2]
     /\ hist' = [hist EXCEPT ![p] = Keep(h2, c2)]
     /\ UNCHANGED << front, configured, ai_classifications, ai_response_cache, run,
                     firstPayload, ncalls >>

\* storeMediaItem: the SELECT of the existing id after a conflict.
SelectExisting(p, dbOk) ==
  LET c == call[p]
      c2 == IF dbOk
            THEN AfterStoreMediaItem(c, SelectMediaItemId(media_items, c.media))
            ELSE StoreFailure(c)
  IN /\ c.pc = "selectExisting"
     /\ call' = [call EXCEPT ![p] = c2]
     /\ hist' = [hist EXCEPT ![p] = Keep(hist[p], c2)]
     /\ UNCHANGED << front, configured, store, run, firstPayload, ncalls >>

\* storeClassifications: one INSERT of the loop.
StoreClassification(p, dbOk) ==
  LET c == call[p]
      h == c.result[c.i]
      ok == dbOk /\ ~ViolatesCheck(h) /\ ~ViolatesEnum(h)
      tbl == InsertClassification(ai_classifications, c.mediaItemId, h)
      c2 == IF ~ok THEN StoreFailure(c)
            ELSE IF c.i = Len(c.result) THEN [c EXCEPT !.pc = "cacheResponse"]
            ELSE [c EXCEPT !.i = @ + 1]
      h2 == IF ok /\ tbl # ai_classifications
            THEN [hist[p] EXCEPT !.wrote = @ \cup {"ai_classifications"}]
            ELSE hist[p]
  IN /\ c.pc = "storeClassifications"
     /\ ai_classifications' = IF ok THEN tbl ELSE ai_classifications
     /\ call' = [call EXCEPT ![p] = c2]
     /\ hist' = [hist EXCEPT ![p] = Keep(h2, c2)]
     /\ UNCHANGED << front, configured, media_items, ai_response_cache, run,
                     firstPayload, ncalls >>

\* cacheResponse, then classify returns its in-memory result.
CacheResponse(p, dbOk) ==
  LET c == call[p]
      tbl == InsertCacheRow(ai_response_cache, c.mediaItemId, c.result)
      c2 == IF dbOk
            THEN Returned(c, c.result, FALSE, tbl # ai_response_cache)
            ELSE StoreFailure(c)
  IN /\ c.pc = "cacheResponse"
     /\ ai_response_cache' = IF dbOk THEN tbl ELSE ai_response_cache
     /\ call' = [call EXCEPT ![p] = c2]
     /\ hist' = [hist EXCEPT ![p] = Keep(hist[p], c2)]
     /\ firstPayload' =
          IF dbOk /\ ~firstPayload[c.media].has
          THEN [firstPayload EXCEPT ![c.media] =
                  [has |-> TRUE, payload |-> JsonStringify(c.result)]]
          ELSE firstPayload
     /\ UNCHANGED << front, configured, media_items, ai_classifications, run, ncalls >>

\* --------------------------------------------------- bulk-classify (POST)
\* getBulkCachedClassifications: one query for all keys; the map from plex
\* key to the holidays of the cached payload, empty when the query fails.
getBulkCachedClassifications(mediaTbl, cacheTbl, plexKeys, dbOk) ==
  IF ~dbOk THEN {}
  ELSE { [plexKey |-> k,
          holidays |-> (CHOOSE r \in SelectCacheRows(mediaTbl, cacheTbl, k) : TRUE)
                          .response_payload] :
           k \in { x \in plexKeys : SelectCacheRows(mediaTbl, cacheTbl, x) # {} } }

MapHas(m, k) == \E e \in m : e.plexKey = k

MapGet(m, k) == (CHOOSE e \in m : e.plexKey = k).holidays

MapSet(m, k, v) == { e \in m : e.plexKey # k } \cup { [plexKey |-> k, holidays |-> v] }

Range(seq) == { seq[i] : i \in 1..Len(seq) }

\* The filter of the endpoint: confidence threshold and selected holidays.
FilterHolidays(holidays, selectedHolidays) ==
  SelectSeq(holidays, LAMBDA h : h.confidence >= ConfidenceThreshold
                                 /\ h.holiday \in selectedHolidays)

\* resultsMap after the loop over media[1..n] with the cached results.
RECURSIVE CachedPass(_, _, _, _)
CachedPass(media, n, cachedResults, selectedHolidays) ==
  IF n = 0 THEN {}
  ELSE LET m == CachedPass(media, n - 1, cachedResults, selectedHolidays)
           k == media[n]
           f == FilterHolidays(MapGet(cachedResults, k), selectedHolidays)
       IN IF MapHas(cachedResults, k) /\ Len(f) > 0 THEN MapSet(m, k, f) ELSE m

\* Variant: every item is pushed, whether it has a cached result or not.
ItemsNeedingClassification_IgnoresCache(media, cachedResults) == media

\* itemsNeedingClassification: the items without a cached result, in order.
ItemsNeedingClassification(media, cachedResults) ==
  SelectSeq(media, LAMBDA k : ~MapHas(cachedResults, k))

\* Variant: the else is missing, an item with a cached classification is
\* pushed to needsClassification as well.
partitionMediaByCache_NoElse(mediaTbl, cacheTbl, mediaItems, dbOk) ==
  LET cachedResults ==
        getBulkCachedClassifications(mediaTbl, cacheTbl, Range(mediaItems), dbOk)
      hits == SelectSeq(mediaItems, LAMBDA k : MapHas(cachedResults, k))
  IN [ cached |->
         [ i \in 1..Len(hits) |->
             [ media |-> hits[i],
               classification |->
                 [plexKey |-> hits[i], holidays |-> MapGet(cachedResults, hits[i])] ] ],
       needsClassification |-> mediaItems ]

\* partitionMediaByCache: the items with a cached classification and the
\* items without one, each in the order of mediaItems.
partitionMediaByCache(mediaTbl, cacheTbl, mediaItems, dbOk) ==
  LET cachedResults ==
        getBulkCachedClassifications(mediaTbl, cacheTbl, Range(mediaItems), dbOk)
      hits == SelectSeq(mediaItems, LAMBDA k : MapHas(cachedResults, k))
  IN [ cached |->
         [ i \in 1..Len(hits) |->
             [ media |-> hits[i],
               classification |->
                 [plexKey |-> hits[i], holidays |-> MapGet(cachedResults, hits[i])] ] ],
       needsClassification |->
         SelectSeq(mediaItems, LAMBDA k : ~MapHas(cachedResults, k)) ]

\* Variant: cached is the size of resultsMap instead of cachedResults.
Respond_CachedIsResultCount(r) ==
  [IdleRun EXCEPT !.status = "ok",
                  !.useAI = r.useAI,
                  !.readFailed = r.readFailed,
                  !.cached = Cardinality(r.results),
                  !.classified = r.classified,
                  !.total = r.total,
                  !.results = { [plexKey |-> e.plexKey,
                                 holidays |-> JsonStringify(e.holidays)] :
                                  e \in r.results }]

\* The success response: the counters and the serialized results object
\* (the locals of the finished request are reset).
Respond(r) ==
  [IdleRun EXCEPT !.status = "ok",
                  !.useAI = r.useAI,
                  !.readFailed = r.readFailed,
                  !.cached = r.cached,
                  !.classified = r.classified,
                  !.total = r.total,
                  !.results = { [plexKey |-> e.plexKey,
                                 holidays |-> JsonStringify(e.holidays)] :
                                  e \in r.results }]

\* p leaves the finished call it held: it is no longer the latest classify of
\* its item in the bookkeeping of the others.
Forget(p) ==
  [q \in Procs |->
     IF q = p THEN NewHist({}) ELSE [hist[q] EXCEPT !.after = @ \ {p}]]

\* What a bulk request takes of the bound: the classify calls it may start,
\* and one when it can start none.
BulkCost(media, useAI) == IF useAI /\ Len(media) > 0 THEN Len(media) ELSE 1

\* Variant: the items without a cached result are classified whatever useAI is.
StartsAI_Always(useAI, itemsNeedingClassification) ==
  Len(itemsNeedingClassification) > 0

\* useAI && itemsNeedingClassification.length > 0
StartsAI(useAI, itemsNeedingClassification) ==
  useAI /\ Len(itemsNeedingClassification) > 0

\* POST is entered with a request body; an empty media array is rejected.
BulkStart(p, media, selectedHolidays, useAI) ==
  /\ ~Running(run[p])
  /\ Finished(call[p])
  /\ ncalls + BulkCost(media, useAI) <= MaxCalls
  /\ ncalls' = ncalls + BulkCost(media, useAI)
  /\ run' = [run EXCEPT ![p] =
               IF Len(media) = 0
               THEN [IdleRun EXCEPT !.status = "error400"]
               ELSE [IdleRun EXCEPT !.status = "read", !.media = media,
                                    !.selectedHolidays = selectedHolidays,
                                    !.useAI = useAI, !.total = Len(media)]]
  /\ call' = [call EXCEPT ![p] = IdleCall]
  /\ hist' = Forget(p)
  /\ UNCHANGED << front, configured, store, firstPayload >>

\* Step 1: the bulk lookup resolves, the cached results are filtered into
\* resultsMap; step 2 starts with the first item needing classification.
BulkRead(p, dbOk) ==
  LET r == run[p]
      cachedResults ==
        getBulkCachedClassifications(media_items, ai_response_cache,
                                     Range(r.media), dbOk)
      needs == ItemsNeedingClassification(r.media, cachedResults)
      r2 == [r EXCEPT !.readFailed = ~dbOk,
                      !.cached = Cardinality(cachedResults),
                      !.needs = needs,
                      !.results = CachedPass(r.media, Len(r.media), cachedResults,
                                             r.selectedHolidays)]
  IN /\ r.status = "read"
     /\ IF StartsAI(r.useAI, needs)
        THEN IF configured
             THEN /\ run' = [run EXCEPT ![p] = [r2 EXCEPT !.status = "classify", !.idx = 1]]
                  /\ EnterClassify(p, needs[1])
             ELSE /\ run' = [run EXCEPT ![p] =
                               [IdleRun EXCEPT !.status = "error500",
                                               !.readFailed = ~dbOk]]
                  /\ UNCHANGED << call, hist >>
        ELSE /\ run' = [run EXCEPT ![p] = Respond(r2)]
             /\ UNCHANGED << call, hist >>
     /\ UNCHANGED << front, configured, store, firstPayload, ncalls >>

\* Variant: the loop has no try/catch, the error of a classify call reaches
\* the catch of the handler and the request fails.
BulkNext_AbortOnFailure(p) ==
  LET r == run[p]
      c == call[p]
      f == FilterHolidays(c.ret, r.selectedHolidays)
      r2 == [r EXCEPT !.classified = @ + 1,
                      !.results = IF Len(f) > 0 THEN MapSet(@, c.media, f) ELSE @]
  IN /\ r.status = "classify"
     /\ c.pc \in {"returned", "threw"}
     /\ IF c.pc = "threw"
        THEN /\ run' = [run EXCEPT ![p] = [IdleRun EXCEPT !.status = "error500"]]
             /\ UNCHANGED << call, hist >>
        ELSE IF r.idx < Len(r.needs)
        THEN /\ run' = [run EXCEPT ![p] = [r2 EXCEPT !.idx = @ + 1]]
             /\ EnterClassify(p, r.needs[r.idx + 1])
        ELSE /\ run' = [run EXCEPT ![p] = Respond(r2)]
             /\ UNCHANGED << call, hist >>
     /\ UNCHANGED << front, configured, store, firstPayload, ncalls >>

\* Step 2: a classify call of the loop has settled; its filtered result is
\* recorded, or its error is logged, and the loop goes on to the next item.
BulkNext(p) ==
  LET r == run[p]
      c == call[p]
      f == FilterHolidays(c.ret, r.selectedHolidays)
      r2 == IF c.pc = "returned"
            THEN [r EXCEPT !.classified = @ + 1,
                           !.results = IF Len(f) > 0
                                       THEN MapSet(@, c.media, f) ELSE @]
            ELSE [r EXCEPT !.failed = @ + 1]
  IN /\ r.status = "classify"
     /\ c.pc \in {"returned", "threw"}
     /\ IF r.idx < Len(r.needs)
        THEN /\ run' = [run EXCEPT ![p] = [r2 EXCEPT !.idx = @ + 1]]
             /\ EnterClassify(p, r.needs[r.idx + 1])
        ELSE /\ run' = [run EXCEPT ![p] = Respond(r2)]
             /\ UNCHANGED << call, hist >>
     /\ UNCHANGED << front, configured, store, firstPayload, ncalls >>

Next ==
  \/ \E p \in BulkProcs, media \in MediaLists, sel \in SelectedChoices, useAI \in BOOLEAN :
       BulkStart(p, media, sel, useAI)
  \/ \E p \in Procs, dbOk \in BOOLEAN : BulkRead(p, dbOk)
  \/ \E p \in Procs : BulkNext(p)
  \/ \E p \in Procs, k \in Items : ClassifyStart(p, k)
  \/ \E p \in Procs, dbOk \in BOOLEAN : GetCachedResult(p, dbOk)
  \/ \E p \in Procs, out \in BackendOutcomes : BackendRespond(p, out)
  \/ \E p \in Procs : Wake(p)
  \/ \E p \in Procs, dbOk \in BOOLEAN : StoreMediaItem(p, dbOk)
  \/ \E p \in Procs, dbOk \in BOOLEAN : SelectExisting(p, dbOk)
  \/ \E p \in Procs, dbOk \in BOOLEAN : StoreClassification(p, dbOk)
  \/ \E p \in Procs, dbOk \in BOOLEAN : CacheResponse(p, dbOk)

Spec == Init /\ [][Next]_vars

\* ------------------------------------------------------------- properties
MediaRowsOf(k) == { m \in media_items : m.plex_key = k }

CacheRowsOf(k) ==
  { c \in ai_response_cache :
      \E m \in media_items : m.plex_key = k /\ c.media_item_id = m.id }

CachePayloadOf(k) == (CHOOSE c \in CacheRowsOf(k) : TRUE).response_payload

\* A call that computed its result from a backend answer and returned it.
ReturnedFresh(p) == call[p].pc = "returned" /\ ~call[p].fromCache

\* C1: in every step, afterwards each media item has at most one row in
\* ai_response_cache, and every row that existed before the step still exists
\* with the same response payload: a later classification attempt for the
\* item is a no-op on the cache, never an overwrite.
C1_CacheRowWrittenOnce ==
  [][ /\ \A m \in media_items' :
           Cardinality({ c \in ai_response_cache' : c.media_item_id = m.id }) <= 1
      /\ \A c \in ai_response_cache :
           \E d \in ai_response_cache' :
             /\ d.media_item_id = c.media_item_id
             /\ d.response_payload = c.response_payload ]_vars

\* A call computed a result that differs from the cached payload of its item
\* and returned: its cache write was ignored.
C1_Witness ==
  \E p \in Procs :
    /\ ReturnedFresh(p)
    /\ CacheRowsOf(call[p].media) # {}
    /\ ~SameResult(CachePayloadOf(call[p].media), call[p].ret)

\* C2 as stated: a classify call that starts after a classify call for the
\* same item has returned sends no backend request, returns from the cache,
\* and returns a result identical to that of the earlier call.
C2_Original ==
  \A q \in Procs :
    hist[q].after # {} =>
      /\ call[q].pc \in {"getCachedResult", "returned"}
      /\ call[q].pc = "returned" =>
           /\ call[q].fromCache
           /\ \A p \in hist[q].after : SameResult(call[q].ret, call[p].ret)

\* C2 amended: a classify call that starts after a classify call for the same
\* item has returned sends a backend request only when its own cache lookup
\* failed; when the lookup succeeds it returns the payload of the cache row
\* of the item, which is identical to the result of the earlier call if that
\* call read its result from the cache or inserted the cache row itself.
C2_SecondCallFromCache ==
  \A q \in Procs :
    hist[q].after # {} =>
      /\ (call[q].pc = "create" /\ call[q].retries = 0) => hist[q].readFailed
      /\ (call[q].pc = "returned" /\ call[q].fromCache) =>
           /\ CacheRowsOf(call[q].media) # {}
           /\ call[q].ret = CachePayloadOf(call[q].media)
           /\ \A p \in hist[q].after :
                (call[p].fromCache \/ call[p].inserted) =>
                  SameResult(call[q].ret, call[p].ret)

\* A second call has returned the cached result of a first call that had
\* computed it from a backend answer with a holiday.
C2_Witness ==
  \E q \in Procs :
    /\ call[q].pc = "returned" /\ call[q].fromCache
    /\ \E p \in hist[q].after :
         /\ ReturnedFresh(p) /\ call[p].inserted
         /\ Len(call[p].ret) > 0

\* C3 as stated: no classify call whose cache lookup took place when a cache
\* row of its item existed sends the item to the backend.
C3_Original ==
  \A p \in Procs :
    ~(call[p].pc = "create" /\ call[p].retries = 0 /\ hist[p].rowAtCheck)

\* C3 amended: a classify call (direct or of a bulk run) whose cache lookup
\* took place when a cache row of its item existed sends the item to the
\* backend only if that lookup failed; with a successful lookup it never
\* reaches the backend.
C3_BackendOnlyAfterFailedLookup ==
  \A p \in Procs :
    (call[p].pc = "create" /\ call[p].retries = 0 /\ hist[p].rowAtCheck)
      => hist[p].readFailed

\* A call of a bulk run found the cache row of its item and returned it
\* without a backend request.
C3_Witness ==
  \E p \in Procs :
    /\ run[p].status = "classify"
    /\ call[p].pc = "returned" /\ call[p].fromCache
    /\ hist[p].rowAtCheck

\* C4: when two classify calls for the same item have both computed a result
\* from a backend answer and returned, the store holds exactly one media_items
\* row of the item, at most one ai_classifications row per (item, holiday),
\* and exactly one ai_response_cache row of the item, with the payload of the
\* first cache write.
C4_ConcurrentCallsOneRecord ==
  \A p, q \in Procs :
    (p # q /\ ReturnedFresh(p) /\ ReturnedFresh(q) /\ call[p].media = call[q].media)
      => LET k == call[p].media
         IN /\ Cardinality(MediaRowsOf(k)) = 1
            /\ \A a, b \in ai_classifications :
                 (a.media_item_id = b.media_item_id /\ a.holiday = b.holiday)
                   => a = b
            /\ Cardinality(CacheRowsOf(k)) = 1
            /\ firstPayload[k].has
            /\ CachePayloadOf(k) = firstPayload[k].payload

\* Two calls for the same item returned different results computed from
\* different backend answers.
C4_Witness ==
  \E p, q \in Procs :
    /\ p # q /\ ReturnedFresh(p) /\ ReturnedFresh(q)
    /\ call[p].media = call[q].media
    /\ ~SameResult(call[p].ret, call[q].ret)
    /\ call[p].inserted /\ ~call[q].inserted

\* A backend request of p is answered with HTTP 429 in this step.
Answered429(p) ==
  /\ call[p].pc = "create"
  /\ \/ call'[p].pc = "sleep"
     \/ call'[p].pc = "threw" /\ call'[p].error.status = 429

\* C5: whenever a request of a classify call is answered with 429 (so were
\* all earlier requests of the call), it is at most the 6th request, the call
\* throws exactly if it is the 6th, and the call has written no row.
C5_Persistent429 ==
  [][ \A p \in Procs :
        Answered429(p) =>
          /\ hist[p].attempts <= 6
          /\ hist[p].attempts = call[p].retries + 1
          /\ (call'[p].pc = "threw") <=> (hist[p].attempts = 6)
          /\ hist[p].wrote = {}
          /\ store' = store ]_vars

\* A call has thrown the 429 error of its last request.
C5_Witness ==
  \E p \in Procs : call[p].pc = "threw" /\ call[p].error.status = 429

\* C6: while a call waits before its k-th retry, k is in 1..5 and the wait is
\* the seconds of the retry-after header when the 429 answer has one, and
\* otherwise 2, 4, 8, 16, 32 seconds for k = 1..5.
C6_RetryDelay ==
  \A p \in Procs :
    call[p].pc = "sleep" =>
      /\ call[p].retries \in 1..5
      /\ call[p].error.status = 429
      /\ call[p].retryDelay =
           IF call[p].error.retryAfter = <<"1", "2">>
           THEN 12
           ELSE <<2, 4, 8, 16, 32>>[call[p].retries]

\* A call waits 32 seconds before its 5th retry.
C6_Witness ==
  \E p \in Procs :
    call[p].pc = "sleep" /\ call[p].retries = 5 /\ call[p].retryDelay = 32

\* C7 as stated: a call rejected by the content filter sends no further
\* request, writes no classification row, does not throw, and returns the
\* empty result with the media row and exactly one cache row, of the empty
\* payload, in the store.
C7_Claim ==
  \A p \in Procs :
    call[p].filtered =>
      /\ call[p].pc \in {"storeMediaItem", "selectExisting", "cacheResponse", "returned"}
      /\ "ai_classifications" \notin hist[p].wrote
      /\ call[p].pc = "returned" =>
           /\ call[p].ret = << >>
           /\ Cardinality(MediaRowsOf(call[p].media)) = 1
           /\ Cardinality(CacheRowsOf(call[p].media)) = 1
           /\ CachePayloadOf(call[p].media) = << >>

\* C8 as stated: when a call throws an error other than a 429, without a
\* content-filter rejection, it has written no classification row and no
\* cache row.
C8_Claim ==
  [][ \A p \in Procs :
        ( /\ call[p].pc # "threw"
          /\ call'[p].pc = "threw"
          /\ call'[p].error.status # 429
          /\ ~call'[p].filtered )
        => hist[p].wrote \cap {"ai_classifications", "ai_response_cache"} = {} ]_vars

\* C9 as stated: the failure of a store query of storeMediaItem,
\* storeClassifications or cacheResponse never makes classify throw.
C9_Claim ==
  \A p \in Procs : call[p].pc = "threw" => call[p].error # DbError

C11_Claim ==
  \A r \in ai_classifications : r.confidence >= 70

\* C13 as stated: when a backend answer has been parsed, the holidays list of
\* the call is exactly the entries of the answer whose token is a key of the
\* holiday-name table, in order, mapped to the table value with confidence and
\* reason unchanged, and every holiday of the list is a member of the Holiday
\* enumeration.
C13_Claim ==
  [][ \A p \in Procs :
        (call[p].pc = "create" /\ call'[p].pc = "storeMediaItem" /\ ~call'[p].filtered)
        => /\ \E raw \in RawResponses :
                LET keyed == SelectSeq(raw, LAMBDA h : h.holiday \in DOMAIN holidayNameMap)
                IN call'[p].result =
                     [ i \in 1..Len(keyed) |->
                         [ holiday |-> holidayNameMap[keyed[i].holiday],
                           confidence |-> keyed[i].confidence,
                           reason |-> keyed[i].reason ] ]
           /\ \A i \in 1..Len(call'[p].result) :
                call'[p].result[i].holiday \in HolidayEnum ]_vars

\* C16: when a classify call of the loop of a bulk run has thrown, the run
\* does not fail: classified is not incremented, the results gathered so far
\* (from the cache and from the other items) are kept and do not hold the
\* failed item, and the run goes on with the next item or, after the last
\* item, answers with the success response that carries these results.
C16_BulkItemFailureSkipped ==
  [][ \A p \in Procs :
        LET r == run[p]
        IN (r.status = "classify" /\ call[p].pc = "threw" /\ run'[p] # r) =>
             /\ run'[p].classified = r.classified
             /\ run'[p].cached = r.cached
             /\ run'[p].total = r.total
             /\ ~MapHas(r.results, call[p].media)
             /\ IF r.idx < Len(r.needs)
                THEN /\ run'[p].status = "classify"
                     /\ run'[p].results = r.results
                     /\ run'[p].idx = r.idx + 1
                     /\ call'[p].pc = "getCachedResult"
                     /\ call'[p].media = r.needs[r.idx + 1]
                ELSE /\ run'[p].status = "ok"
                     /\ run'[p].results =
                          { [plexKey |-> e.plexKey, holidays |-> JsonStringify(e.holidays)] :
                              e \in r.results } ]_vars

\* A run over two uncached items has answered with one item classified, its
\* result in the response, and the other item failed.
C16_Witness ==
  \E p \in Procs :
    /\ run[p].status = "ok" /\ ~run[p].readFailed
    /\ run[p].total = 2 /\ run[p].cached = 0 /\ run[p].classified = 1
    /\ Cardinality(run[p].results) = 1
    /\ call[p].pc = "threw"

\* The needs-classification list a bulk run over batch ml computes when its
\* cache read succeeds on the given tables.
NeedsOf(mediaTbl, cacheTbl, ml) ==
  ItemsNeedingClassification(
    ml, getBulkCachedClassifications(mediaTbl, cacheTbl, Range(ml), TRUE))

\* C17: in every step and for every batch, the needs-classification set that
\* a bulk run with a successful cache read computes after the step is a
\* subset of the one it computes before the step, and it does not contain
\* the item of a classify call that returns in the step; a run whose cache
\* read succeeds takes exactly this set.  Hence, of two successive runs over
\* the same batch, the later one needs a subset of what the earlier one
\* needed, without the items classified successfully in between.
C17_NeedsSetShrinks ==
  [][ /\ \A ml \in MediaLists :
           /\ Range(NeedsOf(media_items', ai_response_cache', ml))
                \subseteq Range(NeedsOf(media_items, ai_response_cache, ml))
           /\ \A p \in Procs :
                (call[p].pc # "returned" /\ call'[p].pc = "returned")
                  => call'[p].media
                       \notin Range(NeedsOf(media_items', ai_response_cache', ml))
      /\ \A p \in Procs :
           ( /\ run[p].status = "read"
             /\ run'[p].status = "classify"
             /\ ~run'[p].readFailed )
           => run'[p].needs = NeedsOf(media_items, ai_response_cache, run[p].media) ]_vars

\* A bulk run over a batch of one item found the item cached by an earlier
\* classification: nothing was left to classify.
C17_Witness ==
  \E p \in Procs :
    /\ run[p].status = "ok" /\ ~run[p].readFailed
    /\ run[p].total = 1 /\ run[p].cached = 1 /\ run[p].classified = 0

\* Batches given to partitionMediaByCache: also in another order and with a
\* key twice.
PartitionInputs == MediaLists \cup { <<"k2", "k1">>, <<"k1", "k1">> }

RECURSIVE IsSubsequence(_, _)
IsSubsequence(a, b) ==
  IF a = << >> THEN TRUE
  ELSE IF b = << >> THEN FALSE
  ELSE IF Head(a) = Head(b) THEN IsSubsequence(Tail(a), Tail(b))
  ELSE IsSubsequence(a, Tail(b))

Occurrences(seq, k) == Cardinality({ i \in 1..Len(seq) : seq[i] = k })

\* C18: for every batch and every state of the store, with the lookup
\* succeeding or failing, partitionMediaByCache splits the batch: each key
\* occurs in cached and needsClassification together as often as in the
\* batch and in only one of them, both lists are in input order, the items of
\* cached are the ones the bulk lookup returned a record for, each paired
\* with that record, and the items of needsClassification have no record.
C18_PartitionSplitsExactly ==
  \A ml \in PartitionInputs, dbOk \in BOOLEAN :
    LET part == partitionMediaByCache(media_items, ai_response_cache, ml, dbOk)
        found == getBulkCachedClassifications(media_items, ai_response_cache,
                                              Range(ml), dbOk)
        cachedKeys == [ i \in 1..Len(part.cached) |-> part.cached[i].media ]
        needs == part.needsClassification
    IN /\ \A k \in Items :
            /\ Occurrences(cachedKeys, k) + Occurrences(needs, k) = Occurrences(ml, k)
            /\ Occurrences(cachedKeys, k) = 0 \/ Occurrences(needs, k) = 0
       /\ IsSubsequence(cachedKeys, ml)
       /\ IsSubsequence(needs, ml)
       /\ \A i \in 1..Len(part.cached) :
            \E e \in found :
              /\ e.plexKey = part.cached[i].media
              /\ part.cached[i].classification = e
       /\ \A i \in 1..Len(needs) :
            ~\E e \in found : e.plexKey = needs[i]

\* In this state partitionMediaByCache puts one item of a batch of two in
\* cached, with its record, and the other in needsClassification.
C18_Witness ==
  LET part == partitionMediaByCache(media_items, ai_response_cache,
                                    <<"k1", "k2">>, TRUE)
  IN /\ Len(part.cached) = 1
     /\ Len(part.needsClassification) = 1
     /\ Len(part.cached[1].classification.holidays) > 0

\* ------------------------------------------------- the matcher under call
\* A matcher is built over a library; one of its methods is called.
ServerIdle ==
  /\ configured = TRUE
  /\ media_items = {}
  /\ ai_classifications = {}
  /\ ai_response_cache = {}
  /\ call = [p \in Procs |-> IdleCall]
  /\ run = [p \in Procs |-> IdleRun]
  /\ hist = [p \in Procs |-> NewHist({})]
  /\ firstPayload = [k \in Items |-> [has |-> FALSE, payload |-> << >>]]
  /\ ncalls = 0

InitMatcher ==
  /\ ServerIdle
  /\ ui = IdleCreator
  /\ wiki = IdleScraper
  /\ \E lib \in Libraries, titles \in AdditionalTitleChoices :
       pm = [IdleMatcher EXCEPT !.media = lib, !.additionalTitles = titles]

server ==
  << configured, media_items, ai_classifications, ai_response_cache, call, run,
     hist, firstPayload, ncalls >>

GetMatchScore(i, holiday) ==
  /\ pm.op = "none"
  /\ i \in 1..Len(pm.media)
  /\ pm' = [pm EXCEPT !.op = "getMatchScore", !.item = i, !.holiday = holiday,
                      !.score = getMatchScore(pm.additionalTitles, pm.media[i], holiday)]
  /\ UNCHANGED << server, ui, wiki >>

IsMatch(i, holiday) ==
  /\ pm.op = "none"
  /\ i \in 1..Len(pm.media)
  /\ pm' = [pm EXCEPT !.op = "isMatch", !.item = i, !.holiday = holiday,
                      !.matched = isMatch(pm.additionalTitles, pm.media[i], holiday)]
  /\ UNCHANGED << server, ui, wiki >>

FindMatchesWithThreshold(threshold, holidaysToCheck) ==
  /\ pm.op = "none"
  /\ pm' = [pm EXCEPT !.op = "findMatchesWithThreshold",
                      !.threshold = threshold,
                      !.holidaysToCheck = holidaysToCheck,
                      !.matches = findMatchesWithThreshold(pm.additionalTitles, pm.media,
                                                           threshold, holidaysToCheck)]
  /\ UNCHANGED << server, ui, wiki >>

FindMatches ==
  /\ pm.op = "none"
  /\ pm' = [pm EXCEPT !.op = "findMatches",
                      !.threshold = MatchThreshold,
                      !.holidaysToCheck = MatcherHolidays,
                      !.matches = findMatches(pm.additionalTitles, pm.media)]
  /\ UNCHANGED << server, ui, wiki >>

GetMatchSummary ==
  /\ pm.op = "none"
  /\ pm' = [pm EXCEPT !.op = "getMatchSummary",
                      !.summary = getMatchSummary(pm.additionalTitles, pm.media)]
  /\ UNCHANGED << server, ui, wiki >>

NextMatcher ==
  \/ \E i \in 1..2, j \in 1..Len(MatcherHolidays) : GetMatchScore(i, MatcherHolidays[j])
  \/ \E i \in 1..2, j \in 1..Len(MatcherHolidays) : IsMatch(i, MatcherHolidays[j])
  \/ \E threshold \in Thresholds, hs \in HolidaysToCheckChoices :
       FindMatchesWithThreshold(threshold, hs)
  \/ FindMatches
  \/ GetMatchSummary

SpecMatcher == InitMatcher /\ [][NextMatcher]_vars

\* ------------------------------------------------- properties of the matcher
\* the item a getMatchScore or isMatch call was made on
MatcherItem == pm.media[pm.item]

AllListed(m) ==
  { m.episodes[i] : i \in 1..Len(m.episodes) }
  \cup { m.movies[i] : i \in 1..Len(m.movies) }

\* C20 as stated: an item whose title or summary matches an exclude pattern
\* scores 0 and is no match for every holiday, and findMatchesWithThreshold
\* never lists it.
C20_Original ==
  /\ pm.op = "getMatchScore" /\ Excluded(MatcherItem) => pm.score = 0
  /\ pm.op = "isMatch" /\ Excluded(MatcherItem) => ~pm.matched
  /\ pm.op \in {"findMatchesWithThreshold", "findMatches"} =>
       \A i \in 1..Len(pm.matches) :
         \A item \in AllListed(pm.matches[i]) : ~Excluded(item)

\* C20 as amended: an item whose title or summary matches an exclude pattern
\* scores 0 for every holiday, also when include patterns match; it is a
\* match for a holiday, and listed under a holiday, only as a movie of the
\* required-title table of that holiday.
C20_ExcludeVeto ==
  /\ pm.op = "getMatchScore" /\ Excluded(MatcherItem) => pm.score = 0
  /\ pm.op = "isMatch" /\ Excluded(MatcherItem) /\ pm.matched =>
       isRequiredMovie(MatcherItem, pm.holiday)
  /\ pm.op \in {"findMatchesWithThreshold", "findMatches"} =>
       \A i \in 1..Len(pm.matches) :
         \A item \in AllListed(pm.matches[i]) :
           Excluded(item) => isRequiredMovie(item, pm.matches[i].holiday)

C20_Witness ==
  /\ pm.op = "getMatchScore"
  /\ Excluded(MatcherItem)
  /\ IncludeScore(pm.additionalTitles, MatcherItem, pm.holiday) >= MatchThreshold
  /\ pm.score = 0

\* ---------------------------------------------------- classifyBatch (loop)
\* What a loop over n items takes of the bound.
LoopCost(n) == IF n > 0 THEN n ELSE 1

\* mediaItems.indexOf(media): the first position of the key
IndexOf(seq, k) == CHOOSE i \in 1..Len(seq) : seq[i] = k /\ \A j \in 1..(i - 1) : seq[j] # k

\* classifyBatch(mediaItems) is called on a classifier.
BatchStart(p, mediaItems) ==
  /\ configured
  /\ ~Running(run[p])
  /\ Finished(call[p])
  /\ ncalls + LoopCost(Len(mediaItems)) <= MaxCalls
  /\ ncalls' = ncalls + LoopCost(Len(mediaItems))
  /\ IF Len(mediaItems) = 0
     THEN /\ run' = [run EXCEPT ![p] = [IdleRun EXCEPT !.status = "batchDone"]]
          /\ call' = [call EXCEPT ![p] = IdleCall]
          /\ hist' = Forget(p)
     ELSE /\ run' = [run EXCEPT ![p] =
                       [IdleRun EXCEPT !.status = "batch", !.media = mediaItems,
                                       !.idx = 1]]
          /\ EnterClassify(p, mediaItems[1])
  /\ UNCHANGED << front, configured, store, firstPayload >>

\* Variant: the loop does not take the items in the order of the array.
BatchAdvance_OutOfOrder(p, r) ==
  IF r.idx < Len(r.media)
  THEN /\ run' = [run EXCEPT ![p] = [r EXCEPT !.status = "batch", !.idx = @ + 1]]
       /\ EnterClassify(p, r.media[Len(r.media) - r.idx])
  ELSE /\ run' = [run EXCEPT ![p] =
                    [IdleRun EXCEPT !.status = "batchDone", !.results = r.results]]
       /\ UNCHANGED << call, hist >>

\* The for-of loop of classifyBatch moves past item idx.
BatchAdvance(p, r) ==
  IF r.idx < Len(r.media)
  THEN /\ run' = [run EXCEPT ![p] = [r EXCEPT !.status = "batch", !.idx = @ + 1]]
       /\ EnterClassify(p, r.media[r.idx + 1])
  ELSE /\ run' = [run EXCEPT ![p] =
                    [IdleRun EXCEPT !.status = "batchDone", !.results = r.results]]
       /\ UNCHANGED << call, hist >>

\* Variant: no try/catch in the loop, the error of an item leaves classifyBatch.
BatchNext_NoCatch(p) ==
  LET r == run[p]
      c == call[p]
      r2 == [r EXCEPT !.results = MapSet(@, c.media, c.ret)]
  IN /\ r.status = "batch"
     /\ c.pc \in {"returned", "threw"}
     /\ IF c.pc = "threw"
        THEN /\ run' = [run EXCEPT ![p] = [IdleRun EXCEPT !.status = "batchThrew"]]
             /\ UNCHANGED << call, hist >>
        ELSE IF IndexOf(r.media, c.media) < Len(r.media)
        THEN /\ run' = [run EXCEPT ![p] = [r2 EXCEPT !.status = "batchDelay"]]
             /\ UNCHANGED << call, hist >>
        ELSE BatchAdvance(p, r2)
     /\ UNCHANGED << front, configured, store, firstPayload, ncalls >>

\* The classify call of the loop has settled: its result is set in the map
\* and the delay is started unless the item is the last one, or its error
\* is logged and the loop goes on.
BatchNext(p) ==
  LET r == run[p]
      c == call[p]
      r2 == [r EXCEPT !.results = MapSet(@, c.media, c.ret)]
  IN /\ r.status = "batch"
     /\ c.pc \in {"returned", "threw"}
     /\ IF c.pc = "threw"
        THEN BatchAdvance(p, r)
        ELSE IF IndexOf(r.media, c.media) < Len(r.media)
        THEN /\ run' = [run EXCEPT ![p] = [r2 EXCEPT !.status = "batchDelay"]]
             /\ UNCHANGED << call, hist >>
        ELSE BatchAdvance(p, r2)
     /\ UNCHANGED << front, configured, store, firstPayload, ncalls >>

\* the delay between two requests has elapsed
BatchWake(p) ==
  /\ run[p].status = "batchDelay"
  /\ BatchAdvance(p, run[p])
  /\ UNCHANGED << front, configured, store, firstPayload, ncalls >>

\* ------------------------------------------------------------ ai-scan (POST)
\* Variant: the confidence of the match is not looked at.
ScanAccepts_AnyConfidence(holidayMatch, selectedHolidays) ==
  holidayMatch.holiday \in selectedHolidays

\* holidayMatch.confidence >= 70 && selectedHolidays.includes(holidayMatch.holiday)
ScanAccepts(holidayMatch, selectedHolidays) ==
  /\ holidayMatch.confidence >= ConfidenceThreshold
  /\ holidayMatch.holiday \in selectedHolidays

\* resultsByHoliday after the loop over the first n holidays of a classification
RECURSIVE ScanPush(_, _, _, _, _)
ScanPush(byHoliday, item, holidays, n, selectedHolidays) ==
  IF n = 0 THEN byHoliday
  ELSE LET b == ScanPush(byHoliday, item, holidays, n - 1, selectedHolidays)
           h == holidays[n]
       IN  IF ScanAccepts(h, selectedHolidays)
           THEN [b EXCEPT ![h.holiday] = Append(@, item)]
           ELSE b

\* the response: the holidays with at least one item
ScanResults(byHoliday) ==
  { [holiday |-> h, items |-> byHoliday[h]] :
      h \in { x \in DOMAIN byHoliday : Len(byHoliday[x]) > 0 } }

\* POST is entered; an empty media array is rejected, a missing
\* configuration makes the constructor throw into the catch of the handler.
ScanStart(p, media, selectedHolidays) ==
  /\ ~Running(run[p])
  /\ Finished(call[p])
  /\ ncalls + LoopCost(Len(media)) <= MaxCalls
  /\ ncalls' = ncalls + LoopCost(Len(media))
  /\ IF Len(media) = 0 \/ ~configured
     THEN /\ run' = [run EXCEPT ![p] =
                       [IdleRun EXCEPT !.status = IF Len(media) = 0
                                                  THEN "error400" ELSE "error500"]]
          /\ call' = [call EXCEPT ![p] = IdleCall]
          /\ hist' = Forget(p)
     ELSE /\ run' = [run EXCEPT ![p] =
                       [IdleRun EXCEPT !.status = "scan", !.media = media,
                                       !.selectedHolidays = selectedHolidays,
                                       !.resultsByHoliday =
                                          [h \in selectedHolidays |-> << >>],
                                       !.total = Len(media),
                                       !.processed = 1, !.idx = 1]]
          /\ EnterClassify(p, media[1])
  /\ UNCHANGED << front, configured, store, firstPayload >>

\* The classify call of the loop has settled: the item is pushed to the list
\* of every accepted holiday, or the error is counted and logged; the loop
\* goes on, and after the last item the response is built.
ScanNext(p) ==
  LET r == run[p]
      c == call[p]
      r2 == IF c.pc = "returned"
            THEN [r EXCEPT !.resultsByHoliday =
                             ScanPush(@, c.media, c.ret, Len(c.ret),
                                      r.selectedHolidays)]
            ELSE IF c.error.status = 429
            THEN [r EXCEPT !.rateLimitHits = @ + 1]
            ELSE r
  IN /\ r.status = "scan"
     /\ c.pc \in {"returned", "threw"}
     /\ IF r.idx < Len(r.media)
        THEN /\ run' = [run EXCEPT ![p] =
                          [r2 EXCEPT !.idx = @ + 1, !.processed = @ + 1]]
             /\ EnterClassify(p, r.media[r.idx + 1])
        ELSE /\ run' = [run EXCEPT ![p] =
                          [IdleRun EXCEPT !.status = "scanOk",
                                          !.processed = r2.processed,
                                          !.total = r2.total,
                                          !.rateLimitHits = r2.rateLimitHits,
                                          !.results = ScanResults(r2.resultsByHoliday)]]
             /\ UNCHANGED << call, hist >>
     /\ UNCHANGED << front, configured, store, firstPayload, ncalls >>

\* -------------------------------------- HolidayMatcherWithAI.findMatchesWithAI
\* the default of holidaysToCheck
DefaultHolidaysToCheck == << "Halloween", "Thanksgiving", "Christmas", "Valentine's" >>

\* the libraries findMatchesWithAI is called with, as their plex keys
LibraryItem(k) ==
  IF k = "k1"
  THEN PlexItem("k1", "episode", <<"love", " ", "story">>, << >>, 0)
  ELSE PlexItem("k2", "movie", <<"grinch">>, << >>, 2011)

PatternItem(k) ==
  IF k = "k1"
  THEN PlexItem("k1", "episode", <<"halloween">>, << >>, 0)
  ELSE PlexItem("k2", "movie", <<"a", " ", "christmas", " ", "carol">>, << >>, 2009)

AILibraries ==
  { << LibraryItem("k1") >>,
    << LibraryItem("k1"), LibraryItem("k2") >>,
    << PatternItem("k1"), LibraryItem("k2") >>,
    << PatternItem("k2") >> }

AIHolidaysToCheckChoices == { DefaultHolidaysToCheck, << "Christmas", "Easter" >> }

EmptyMatches(holidaysToCheck) ==
  [ h \in Range(holidaysToCheck) |-> [episodes |-> << >>, movies |-> << >>] ]

PushMatch(matches, holiday, item) ==
  IF isPlexEpisode(item)
  THEN [matches EXCEPT ![holiday].episodes = Append(@, item)]
  ELSE [matches EXCEPT ![holiday].movies = Append(@, item)]

\* first pass, item against the first n holidays
RECURSIVE PatternPushItem(_, _, _, _)
PatternPushItem(matches, item, holidaysToCheck, n) ==
  IF n = 0 THEN matches
  ELSE LET m == PatternPushItem(matches, item, holidaysToCheck, n - 1)
       IN  IF isMatch(NoTitles, item, holidaysToCheck[n])
           THEN PushMatch(m, holidaysToCheck[n], item)
           ELSE m

FoundMatch(item, holidaysToCheck) ==
  \E i \in 1..Len(holidaysToCheck) : isMatch(NoTitles, item, holidaysToCheck[i])

\* first pass over the first n items
RECURSIVE PatternPass(_, _, _)
PatternPass(media, n, holidaysToCheck) ==
  IF n = 0 THEN EmptyMatches(holidaysToCheck)
  ELSE PatternPushItem(PatternPass(media, n - 1, holidaysToCheck), media[n],
                       holidaysToCheck, Len(holidaysToCheck))

\* Variant: every item is queued for the AI pass.
ItemsNeedingAI_All(media, holidaysToCheck) == media

ItemsNeedingAI(media, holidaysToCheck) ==
  SelectSeq(media, LAMBDA item : ~FoundMatch(item, holidaysToCheck))

\* classification.confidence >= 70 && holidaysToCheck.includes(classification.holiday)
AIAccepts(classification, holidaysToCheck) ==
  /\ classification.confidence >= ConfidenceThreshold
  /\ classification.holiday \in Range(holidaysToCheck)

\* second pass, the first n holidays of the classification of an item
RECURSIVE AIPush(_, _, _, _, _)
AIPush(matches, item, holidays, n, holidaysToCheck) ==
  IF n = 0 THEN matches
  ELSE LET m == AIPush(matches, item, holidays, n - 1, holidaysToCheck)
       IN  IF AIAccepts(holidays[n], holidaysToCheck)
           THEN PushMatch(m, holidays[n].holiday, item)
           ELSE m

\* the returned array: the holidays with at least one match, in Map order
MatchResults(matches, holidaysToCheck) ==
  LET all == [ i \in 1..Len(holidaysToCheck) |->
                 [ holiday |-> holidaysToCheck[i],
                   episodes |-> matches[holidaysToCheck[i]].episodes,
                   movies |-> matches[holidaysToCheck[i]].movies ] ]
  IN  SelectSeq(all, LAMBDA m : Len(m.episodes) > 0 \/ Len(m.movies) > 0)

MatchDone(r, matches) ==
  [IdleRun EXCEPT !.status = "matchDone", !.media = r.media,
                  !.holidaysToCheck = r.holidaysToCheck,
                  !.results = MatchResults(matches, r.holidaysToCheck)]

\* the first pass over each library, for each choice of holidays
FirstPass ==
  [ media \in AILibraries |->
      [ holidaysToCheck \in AIHolidaysToCheckChoices |->
          [ itemsNeedingAI |-> ItemsNeedingAI(media, holidaysToCheck),
            matchesByHoliday |-> PatternPass(media, Len(media), holidaysToCheck) ] ] ]

\* findMatchesWithAI(media, selectedHolidays) is called on a matcher: the
\* first pass runs, the second starts with the first item without a match.
MatchAIStart(p, media, holidaysToCheck) ==
  LET needs == FirstPass[media][holidaysToCheck].itemsNeedingAI
      r == [IdleRun EXCEPT !.status = "matchAI", !.media = media,
                           !.holidaysToCheck = holidaysToCheck,
                           !.needs = needs, !.idx = 1,
                           !.matchesByHoliday =
                              FirstPass[media][holidaysToCheck].matchesByHoliday]
  IN /\ configured
     /\ ~Running(run[p])
     /\ Finished(call[p])
     /\ ncalls + LoopCost(Len(needs)) <= MaxCalls
     /\ ncalls' = ncalls + LoopCost(Len(needs))
     /\ IF Len(needs) = 0
        THEN /\ run' = [run EXCEPT ![p] = MatchDone(r, r.matchesByHoliday)]
             /\ call' = [call EXCEPT ![p] = IdleCall]
             /\ hist' = Forget(p)
        ELSE /\ run' = [run EXCEPT ![p] = r]
             /\ EnterClassify(p, needs[1].key)
     /\ UNCHANGED << front, configured, store, firstPayload >>

\* The classify call of the second pass has settled.
MatchAINext(p) ==
  LET r == run[p]
      c == call[p]
      matches == IF c.pc = "returned"
                 THEN AIPush(r.matchesByHoliday, r.needs[r.idx], c.ret,
                             Len(c.ret), r.holidaysToCheck)
                 ELSE r.matchesByHoliday
  IN /\ r.status = "matchAI"
     /\ c.pc \in {"returned", "threw"}
     /\ IF r.idx < Len(r.needs)
        THEN /\ run' = [run EXCEPT ![p] =
                          [r EXCEPT !.idx = @ + 1, !.matchesByHoliday = matches]]
             /\ EnterClassify(p, r.needs[r.idx + 1].key)
        ELSE /\ run' = [run EXCEPT ![p] = MatchDone(r, matches)]
             /\ UNCHANGED << call, hist >>
     /\ UNCHANGED << front, configured, store, firstPayload, ncalls >>

\* -------------------------------------------------- the loops over classify
\* One server process runs the loops and direct classify calls, one after
\* the other.
LoopProcs == {"p1"}

\* the answers of the backend to the calls of the loops
LoopOutcomes ==
  BackendOutcomes \cup { [kind |-> "ok", raw |-> RawF, err |-> NoError] }

NextLoops ==
  \/ \E p \in BulkProcs, media \in MediaLists, sel \in SelectedChoices, useAI \in BOOLEAN :
       BulkStart(p, media, sel, useAI)
  \/ \E p \in Procs, dbOk \in BOOLEAN : BulkRead(p, dbOk)
  \/ \E p \in Procs : BulkNext(p)
  \/ \E p \in LoopProcs, media \in MediaLists : BatchStart(p, media)
  \/ \E p \in Procs : BatchNext(p)
  \/ \E p \in Procs : BatchWake(p)
  \/ \E p \in LoopProcs, media \in MediaLists, sel \in SelectedChoices :
       ScanStart(p, media, sel)
  \/ \E p \in Procs : ScanNext(p)
  \/ \E p \in LoopProcs, media \in AILibraries, hs \in AIHolidaysToCheckChoices :
       MatchAIStart(p, media, hs)
  \/ \E p \in Procs : MatchAINext(p)
  \/ \E p \in LoopProcs, k \in Items : ClassifyStart(p, k)
  \/ \E p \in Procs, dbOk \in BOOLEAN : GetCachedResult(p, dbOk)
  \/ \E p \in Procs, out \in LoopOutcomes : BackendRespond(p, out)
  \/ \E p \in Procs : Wake(p)
  \/ \E p \in Procs, dbOk \in BOOLEAN : StoreMediaItem(p, dbOk)
  \/ \E p \in Procs, dbOk \in BOOLEAN : SelectExisting(p, dbOk)
  \/ \E p \in Procs, dbOk \in BOOLEAN : StoreClassification(p, dbOk)
  \/ \E p \in Procs, dbOk \in BOOLEAN : CacheResponse(p, dbOk)

SpecLoops == Init /\ [][NextLoops]_vars

\* ------------------------------------------------- properties of the loops
ResultKeys(results) == { e.plexKey : e \in results }

BatchStatuses == {"batch", "batchDelay", "batchDone"}

\* C14: classifyBatch starts with an empty map; when the classify call of an
\* item settles, the key of the item is added to the map (with the result of
\* the call) exactly if the call returned, and nothing else changes the keys;
\* after a call that threw the next item is classified; classifyBatch returns
\* only after the last item and never leaves with the error of an item.
C14_BatchSkipsFailedItems ==
  [][ \A p \in Procs :
        LET r == run[p]
            r2 == run'[p]
            c == call[p]
        IN /\ r2.status = "batch" /\ r.status \notin BatchStatuses \ {"batchDone"}
                => r2.results = {}
           /\ r.status = "batch" /\ r2 # r =>
                /\ r2.status \in BatchStatuses
                /\ ResultKeys(r2.results) =
                     ResultKeys(r.results)
                       \cup (IF c.pc = "returned" THEN {c.media} ELSE {})
                /\ c.pc = "returned" => MapGet(r2.results, c.media) = c.ret
                /\ c.pc = "threw" /\ r.idx < Len(r.media) =>
                     /\ r2.status = "batch"
                     /\ call'[p] = BeginClassify(r.media[r.idx + 1])
                /\ r2.status = "batchDone" => r.idx = Len(r.media)
           /\ r.status = "batchDelay" /\ r2 # r =>
                /\ r2.status \in BatchStatuses
                /\ r2.results = r.results
      ]_vars

\* A batch of two has returned a map with the second key only: the call for
\* the first item threw, the call for the second returned.
C14_Witness ==
  \E p \in Procs :
    run[p].status = "batchDone" /\ ResultKeys(run[p].results) = {"k2"}

\* the items a loop issues classify calls for, in the order of the loop
LoopItems(r) == IF r.status = "classify" THEN r.needs ELSE r.media

InLoop(r) == r.status \in {"classify", "batch"}

\* p enters a classify call in this step
CallStarts(p) == call'[p].pc = "getCachedResult" /\ call'[p] # call[p]

\* C15: within classifyBatch and within the needs-classification loop of
\* bulk-classify, a classify call starts only when the previous call of the
\* run has returned or thrown, it is the call for the next item in input
\* order, and the one call a run has open is the call for the item the loop
\* is at (so at most one backend request of the run is in flight).
C15_SequentialInOrder ==
  [][ \A p \in Procs :
        LET r == run[p]
            r2 == run'[p]
        IN /\ CallStarts(p) /\ InLoop(r2) =>
                /\ Finished(call[p])
                /\ r2.idx = IF r.status \in {"classify", "batch", "batchDelay"}
                            THEN r.idx + 1 ELSE 1
                /\ LoopItems(r2) = IF r.status \in {"classify", "batch", "batchDelay"}
                                   THEN LoopItems(r) ELSE LoopItems(r2)
           /\ InLoop(r2) =>
                /\ r2.idx \in 1..Len(LoopItems(r2))
                /\ call'[p].media = LoopItems(r2)[r2.idx]
           /\ InLoop(r) /\ r2.idx # r.idx /\ r2.status = r.status => CallStarts(p)
      ]_vars

\* The backend request for the second item of a loop is in flight.
C15_Witness ==
  \E p \in Procs :
    InLoop(run[p]) /\ run[p].idx = 2 /\ call[p].pc = "create"

\* the names a holiday of a classification or of a selection can have
HolidayNames == HolidayEnum \cup Range(MatcherHolidays) \cup {NativeFunction}

\* the items listed under holiday h by an ai-scan request, running or answered
ScanList(r, h) ==
  IF r.status = "scan" /\ h \in DOMAIN r.resultsByHoliday THEN r.resultsByHoliday[h]
  ELSE IF r.status = "scanOk" /\ \E e \in r.results : e.holiday = h
  THEN (CHOOSE e \in r.results : e.holiday = h).items
  ELSE << >>

\* the matches of holiday h of a findMatchesWithAI call, running or returned
MatchList(r, h) ==
  IF r.status = "matchAI" /\ h \in DOMAIN r.matchesByHoliday
  THEN r.matchesByHoliday[h].episodes \o r.matchesByHoliday[h].movies
  ELSE IF r.status = "matchDone"
          /\ \E i \in 1..Len(r.results) : r.results[i].holiday = h
  THEN LET m == r.results[CHOOSE i \in 1..Len(r.results) : r.results[i].holiday = h]
       IN  m.episodes \o m.movies
  ELSE << >>

\* the classification the settled call of p returned holds holiday h with a
\* confidence of at least 70
Qualifies(p, h) ==
  /\ call[p].pc = "returned"
  /\ \E i \in 1..Len(call[p].ret) :
       call[p].ret[i].holiday = h /\ call[p].ret[i].confidence >= 70

\* C12: every holiday entry of the results map of bulk-classify, in the loop
\* and in the response, has confidence >= 70 and a selected holiday, and no
\* key of the map has an empty list; an ai-scan request lists an item under a
\* holiday, and the AI pass of findMatchesWithAI adds an item to a holiday,
\* only when the classification of the item (cached or fresh) holds that
\* holiday with confidence >= 70 and the holiday is selected.
C12_OnlyConfidentSelectedMatches ==
  [][ \A p \in Procs :
        LET r == run[p]
            r2 == run'[p]
        IN /\ r.status \in {"read", "classify"} /\ r2.status \in {"classify", "ok"} =>
                \A e \in r2.results :
                  /\ Len(e.holidays) > 0
                  /\ \A i \in 1..Len(e.holidays) :
                       /\ e.holidays[i].confidence >= 70
                       /\ e.holidays[i].holiday \in r.selectedHolidays
           /\ r.status = "scan" =>
                \A h \in HolidayNames :
                  ScanList(r2, h) # ScanList(r, h) =>
                    /\ h \in r.selectedHolidays
                    /\ Qualifies(p, h)
                    /\ ScanList(r2, h) = ScanList(r, h) \o << call[p].media >>
           /\ r.status = "matchAI" =>
                \A h \in HolidayNames :
                  MatchList(r2, h) # MatchList(r, h) =>
                    /\ h \in Range(r.holidaysToCheck)
                    /\ Qualifies(p, h)
      ]_vars

\* An ai-scan request has received, from the cache, a classification whose
\* only entry is for a selected holiday with a confidence below 70.
C12_Witness ==
  \E p \in Procs :
    /\ run[p].status = "scan"
    /\ call[p].pc = "returned"
    /\ call[p].fromCache
    /\ \E i \in 1..Len(call[p].ret) :
         /\ call[p].ret[i].confidence < 70
         /\ call[p].ret[i].holiday \in run[p].selectedHolidays

\* ------------------------------------------ PlaylistCreator.analyzeLibraries
\* the holidays chosen in the first step, in the order of the Set
ScanSelections == { << "Christmas" >>, << "Halloween", "Christmas" >> }

\* the media of the selected libraries
ScanLibraries ==
  { << a >> : a \in FirstItems } \cup { << a, b >> : a \in FirstItems, b \in SecondItems }

\* A result of classify that the store accepts, as bulk-classify filters and
\* serializes it for the response.
ResponseEntries(selectedHolidays) ==
  { JsonStringify(FilterHolidays(MappedHolidays(raw), Range(selectedHolidays))) :
      raw \in { x \in RawResponses \cup {RawF, RawG} :
                  \A i \in 1..Len(MappedHolidays(x)) :
                    /\ ~ViolatesCheck(MappedHolidays(x)[i])
                    /\ ~ViolatesEnum(MappedHolidays(x)[i]) } }
  \ { << >> }

\* The answers of POST /api/ai-bulk-classify to a batch: an error status, or
\* the results object with an entry for some of the keys.
BulkResponses(allMedia, selectedHolidays) ==
  { [ok |-> FALSE, results |-> {}] }
  \cup { [ok |-> TRUE, results |-> res] :
           res \in { s \in SUBSET { [plexKey |-> allMedia[i].key, holidays |-> e] :
                                      i \in 1..Len(allMedia),
                                      e \in ResponseEntries(selectedHolidays) } :
                       \A x, y \in s : x.plexKey = y.plexKey => x = y } }

\* aiResults after the matches of one item are pushed
RECURSIVE PushAIMatches(_, _, _, _)
PushAIMatches(aiResults, media, matches, n) ==
  IF n = 0 THEN aiResults
  ELSE LET a == PushAIMatches(aiResults, media, matches, n - 1)
           holiday == matches[n].holiday
       IN  IF holiday \in DOMAIN a
           THEN [a EXCEPT ![holiday] = Append(@, media)]
           ELSE [ h \in DOMAIN a \cup {holiday} |->
                    IF h = holiday THEN << media >> ELSE a[h] ]

\* aiResults after the first n items of allMedia are mapped
RECURSIVE MapResults(_, _, _, _)
MapResults(allMedia, n, results, selectedHolidays) ==
  IF n = 0 THEN [ h \in Range(selectedHolidays) |-> << >> ]
  ELSE LET a == MapResults(allMedia, n - 1, results, selectedHolidays)
           media == allMedia[n]
       IN  IF MapHas(results, media.key) /\ Len(MapGet(results, media.key)) > 0
           THEN PushAIMatches(a, media, MapGet(results, media.key),
                              Len(MapGet(results, media.key)))
           ELSE a

\* the sum of the lengths of the lists of the holidays in hs
RECURSIVE SumOfLengths(_, _)
SumOfLengths(aiResults, hs) ==
  IF hs = {} THEN 0
  ELSE LET h == CHOOSE x \in hs : TRUE
       IN  Len(aiResults[h]) + SumOfLengths(aiResults, hs \ {h})

TotalMatches(aiResults) == SumOfLengths(aiResults, DOMAIN aiResults)

\* PLAYLIST_PREFIX, with a hyphen for the dash
PLAYLIST_PREFIX == "Holiday - "

\* Variant: the TV preview also takes the movies of the match.
PreviewsOf_MoviesInTV(match) ==
  (IF Len(match.episodes) > 0
   THEN << [ holiday |-> match.holiday,
             name |-> << PLAYLIST_PREFIX, match.holiday, " TV" >>,
             episodes |-> match.episodes, movies |-> match.movies ] >>
   ELSE << >>)
  \o (IF Len(match.movies) > 0
      THEN << [ holiday |-> match.holiday,
                name |-> << PLAYLIST_PREFIX, match.holiday, " Movies" >>,
                episodes |-> << >>, movies |-> match.movies ] >>
      ELSE << >>)

\* generatePlaylistPreviews: the previews of one HolidayMatch
PreviewsOf(match) ==
  (IF Len(match.episodes) > 0
   THEN << [ holiday |-> match.holiday,
             name |-> << PLAYLIST_PREFIX, match.holiday, " TV" >>,
             episodes |-> match.episodes, movies |-> << >> ] >>
   ELSE << >>)
  \o (IF Len(match.movies) > 0
      THEN << [ holiday |-> match.holiday,
                name |-> << PLAYLIST_PREFIX, match.holiday, " Movies" >>,
                episodes |-> << >>, movies |-> match.movies ] >>
      ELSE << >>)

RECURSIVE PreviewsOfMatches(_, _)
PreviewsOfMatches(matches, n) ==
  IF n = 0 THEN << >>
  ELSE PreviewsOfMatches(matches, n - 1) \o PreviewsOf(matches[n])

\* generatePlaylistPreviews(allMedia, playlistMap, false, selectedHolidays,
\* confidenceThreshold): no scraped titles
generatePlaylistPreviews(media, selectedHolidays, confidenceThreshold) ==
  LET matches == findMatchesWithThreshold(NoTitles, media, confidenceThreshold,
                                          selectedHolidays)
  IN  PreviewsOfMatches(matches, Len(matches))

Guids(items) == { items[i].key : i \in 1..Len(items) }

\* the merge of the items of one holiday of aiResults into the previews
MergeHoliday(previews, holiday, aiItems) ==
  LET aiEp(items) == SelectSeq(items, isPlexEpisode)
      aiMv(items) == SelectSeq(items, LAMBDA x : ~isPlexEpisode(x))
  IN  IF \E i \in 1..Len(previews) : previews[i].holiday = holiday
      THEN LET i == CHOOSE j \in 1..Len(previews) :
                      /\ previews[j].holiday = holiday
                      /\ \A k \in 1..(j - 1) : previews[k].holiday # holiday
               existingGuids == Guids(previews[i].episodes) \cup Guids(previews[i].movies)
               newAIItems == SelectSeq(aiItems, LAMBDA x : x.key \notin existingGuids)
           IN  [previews EXCEPT ![i].episodes = @ \o aiEp(newAIItems),
                                ![i].movies = @ \o aiMv(newAIItems)]
      ELSE previews
           \o (IF Len(aiEp(aiItems)) > 0
               THEN << [ holiday |-> holiday, name |-> << holiday, " TV" >>,
                         episodes |-> aiEp(aiItems), movies |-> << >> ] >>
               ELSE << >>)
           \o (IF Len(aiMv(aiItems)) > 0
               THEN << [ holiday |-> holiday, name |-> << holiday, " Movies" >>,
                         episodes |-> << >>, movies |-> aiMv(aiItems) ] >>
               ELSE << >>)

\* the merge loop over the first n holidays of aiResults
RECURSIVE MergeAIResults(_, _, _, _)
MergeAIResults(previews, aiResults, order, n) ==
  IF n = 0 THEN previews
  ELSE IF order[n] \in DOMAIN aiResults
  THEN MergeHoliday(MergeAIResults(previews, aiResults, order, n - 1), order[n],
                    aiResults[order[n]])
  ELSE MergeAIResults(previews, aiResults, order, n - 1)

\* Analyze is pressed in the library step with some libraries selected.
AnalyzeLibraries(selectedHolidays, threshold) ==
  /\ ui.step \in {"holidays", "library"}
  /\ ui.phase = "none"
  /\ ui' = [IdleCreator EXCEPT !.step = "analyze", !.phase = "loadMedia",
                               !.selectedHolidays = selectedHolidays,
                               !.confidenceThreshold = threshold,
                               !.plex = ui.plex]
  /\ UNCHANGED << server, pm, wiki >>

\* Phase 1: getEpisodes / getMovies resolve, or one of them rejects and the
\* catch block ends the analysis.
MediaLoaded(media, ok) ==
  /\ ui.phase = "loadMedia"
  /\ ui' = IF ok THEN [ui EXCEPT !.phase = "getPlaylists", !.allMedia = media]
           ELSE [ui EXCEPT !.phase = "failed"]
  /\ UNCHANGED << server, pm, wiki >>

\* Phase 2: the existing playlists are read; the request to bulk-classify
\* is sent.
PlaylistsLoaded ==
  /\ ui.phase = "getPlaylists"
  /\ ui' = [ui EXCEPT !.phase = "bulkClassify"]
  /\ UNCHANGED << server, pm, wiki >>

\* generatePlaylistPreviews for every library, selection and threshold
PatternPreviews ==
  [ media \in ScanLibraries |->
      [ sel \in ScanSelections |->
          [ threshold \in Thresholds |->
              generatePlaylistPreviews(media, sel, threshold) ] ] ]

\* Phase 4, fallback: the pattern matcher runs, the AI results are merged
\* into its previews and the confirm step is shown.
Fallback(u, aiResults) ==
  LET previews ==
        PatternPreviews[u.allMedia][u.selectedHolidays][u.confidenceThreshold]
  IN  [u EXCEPT !.step = "confirm", !.phase = "none", !.aiResults = aiResults,
                !.previews = MergeAIResults(previews, aiResults, u.selectedHolidays,
                                            Len(u.selectedHolidays))]

\* Phase 3: the answer of bulk-classify arrives (or the fetch rejects).  With
\* at least one match the creation starts at once, from the AI results.
BulkResponded(resp, rejected) ==
  /\ ui.phase = "bulkClassify"
  /\ resp \in BulkResponses(ui.allMedia, ui.selectedHolidays)
  /\ ui' = IF rejected THEN [ui EXCEPT !.phase = "failed"]
           ELSE IF ~resp.ok
           THEN Fallback(ui, << >>)
           ELSE LET aiResults == MapResults(ui.allMedia, Len(ui.allMedia),
                                            resp.results, ui.selectedHolidays)
                IN  IF TotalMatches(aiResults) > 0
                    THEN [ui EXCEPT !.phase = "creating", !.aiResults = aiResults,
                                    !.idx = 1]
                    ELSE Fallback(ui, aiResults)
  /\ UNCHANGED << server, pm, wiki >>

\* updatePlaylist: the items not yet in the playlist are added
AddToPlaylist(plex, name, items) ==
  IF \E c \in plex : c.title = name
  THEN LET c == CHOOSE x \in plex : x.title = name
       IN  (plex \ {c})
           \cup { [c EXCEPT !.items = @ \o SelectSeq(items, LAMBDA x :
                                                     x.key \notin Guids(c.items))] }
  ELSE plex \cup { [title |-> name, items |-> items] }

\* what the creation loop hands to the Plex client for one holiday
HandedOver(holiday, items) ==
  LET tvItems == SelectSeq(items, isPlexEpisode)
      movieItems == SelectSeq(items, LAMBDA x : ~isPlexEpisode(x))
  IN  (IF Len(tvItems) > 0
       THEN { [holiday |-> holiday, name |-> << holiday, " TV" >>, items |-> tvItems] }
       ELSE {})
      \cup (IF Len(movieItems) > 0
            THEN { [holiday |-> holiday, name |-> << holiday, " Movies" >>,
                    items |-> movieItems] }
            ELSE {})

RECURSIVE AddAll(_, _)
AddAll(plex, handed) ==
  IF handed = {} THEN plex
  ELSE LET x == CHOOSE y \in handed : TRUE
       IN  AddAll(AddToPlaylist(plex, x.name, x.items), handed \ {x})

\* Phase 4: the playlists of the next holiday of aiResults are created or
\* updated (the Plex client reports a failure by its return value, which is
\* not looked at); after the last holiday the create step is shown.
CreateNext(ok) ==
  LET holiday == ui.selectedHolidays[ui.idx]
      handed == HandedOver(holiday, ui.aiResults[holiday])
      last == ui.idx = Len(ui.selectedHolidays)
  IN  /\ ui.phase = "creating"
      /\ ui' = [ui EXCEPT !.output = @ \cup handed,
                          !.plex = IF ok THEN AddAll(@, handed) ELSE @,
                          !.idx = IF last THEN 0 ELSE @ + 1,
                          !.phase = IF last THEN "none" ELSE @,
                          !.step = IF last THEN "create" ELSE @]
      /\ UNCHANGED << server, pm, wiki >>

\* the playlists the Plex server holds when the component is mounted
ExistingPlaylists ==
  { {},
    { [ title |-> << "Christmas", " TV" >>,
        items |-> << PlexItem("k1", "episode", <<"a", " ", "christmas", " ", "carol">>,
                              << >>, 0) >> ] } }

\* every answer bulk-classify can give to a batch of the libraries
AllBulkResponses ==
  UNION { BulkResponses(media, sel) : media \in ScanLibraries, sel \in ScanSelections }

InitScan ==
  /\ ServerIdle
  /\ pm = IdleMatcher
  /\ wiki = IdleScraper
  /\ \E plex \in ExistingPlaylists : ui = [IdleCreator EXCEPT !.plex = plex]

NextScan ==
  \/ \E sel \in ScanSelections, threshold \in Thresholds : AnalyzeLibraries(sel, threshold)
  \/ \E media \in ScanLibraries, ok \in BOOLEAN : MediaLoaded(media, ok)
  \/ PlaylistsLoaded
  \/ \E resp \in AllBulkResponses, rejected \in BOOLEAN : BulkResponded(resp, rejected)
  \/ \E ok \in BOOLEAN : CreateNext(ok)

SpecScan == InitScan /\ [][NextScan]_vars

\* ------------------------------------------------- properties of the scan
\* whether the pattern matcher lists an item of the libraries for a holiday
PatternListed ==
  [ item \in FirstItems \cup SecondItems |->
      [ h \in UNION { Range(sel) : sel \in ScanSelections } |->
          [ threshold \in Thresholds |-> Listed(NoTitles, item, threshold, h) ] ] ]

\* the items of the final grouping of a holiday: what the creation was given,
\* or the previews of the confirm step
ScanOutput(h) ==
  IF ui.step = "create"
  THEN UNION { Range(o.items) : o \in { x \in ui.output : x.holiday = h } }
  ELSE UNION { Range(ui.previews[i].episodes) \cup Range(ui.previews[i].movies) :
                 i \in { j \in 1..Len(ui.previews) : ui.previews[j].holiday = h } }

AIItems(h) ==
  IF h \in DOMAIN ui.aiResults THEN Range(ui.aiResults[h]) ELSE {}

PatternItems(h) ==
  { item \in Range(ui.allMedia) :
      PatternListed[item][h][ui.confidenceThreshold] }

\* C19: when a scan has finished, the final grouping of every selected
\* holiday is the union of the AI/cache-derived items and the matches of the
\* pattern matcher; so an item the pattern matcher lists for a selected
\* holiday is in the output, whether or not the AI-derived map is empty.
C19_Claim ==
  ui.step \in {"create", "confirm"} =>
    \A i \in 1..Len(ui.selectedHolidays) :
      ScanOutput(ui.selectedHolidays[i])
        = AIItems(ui.selectedHolidays[i]) \cup PatternItems(ui.selectedHolidays[i])

\* ------------------------------------------- cross-holiday exclusion (claims)
CuratedHolidays == { MatcherHolidays[i] : i \in 1..Len(MatcherHolidays) }

\* the title of the item names holiday a by a strong indicator and no other
OnlyIndicatorOf(item, a) ==
  /\ IndicatorIn(a, item.title)
  /\ \A o \in CuratedHolidays \ {a} : ~IndicatorIn(o, item.title)

NormalizedEntryWithinTolerance(item, holiday) ==
  /\ holiday \in DOMAIN REQUIRED_MOVIES
  /\ \E i \in 1..Len(REQUIRED_MOVIES[holiday]) :
       LET required == REQUIRED_MOVIES[holiday][i]
       IN  /\ NormalizeTitle(item.title) = NormalizeTitle(required.title)
           /\ item.year # 0
           /\ item.year - required.year \in (0 - YearTolerance)..YearTolerance

\* C22: a movie is reported as a match for holiday H whenever its title,
\* after lower-casing, removal of a leading article and replacement of
\* colons and dashes by whitespace, equals a likewise normalized
\* required-title entry of H and its year differs from the entry's year by at
\* most 1, even when its title and summary contain no keyword.
C22_Claim ==
  /\ pm.op = "isMatch" /\ ~isPlexEpisode(MatcherItem)
       /\ NormalizedEntryWithinTolerance(MatcherItem, pm.holiday)
     => pm.matched
  /\ pm.op \in {"findMatchesWithThreshold", "findMatches"} =>
       \A i \in 1..Len(pm.media), j \in 1..Len(pm.holidaysToCheck) :
         ~isPlexEpisode(pm.media[i])
           /\ NormalizedEntryWithinTolerance(pm.media[i], pm.holidaysToCheck[j])
         => \E m \in 1..Len(pm.matches) :
              /\ pm.matches[m].holiday = pm.holidaysToCheck[j]
              /\ pm.media[i] \in AllListed(pm.matches[m])

\* ------------------------------------------------------- the score (claims)
NotVetoed(item, holiday) ==
  /\ ~Excluded(item)
  /\ \A o \in CuratedHolidays \ {holiday} : ~IndicatorIn(o, item.title)

\* C23: when no exclude pattern matches the item and no other curated
\* holiday's strong indicator matches its title, getMatchScore(item, H) is 10
\* times the number of H's compiled include patterns matching the title, plus
\* 3 times the number matching the summary but not the title, plus 15 times
\* the number of H's strong indicators matching the title, plus 5 times the
\* number matching the summary but not the title, without an upper cap; a
\* missing title or summary counts as empty text.
C23_ScoreIsWeightedCount ==
  pm.op = "getMatchScore" /\ NotVetoed(MatcherItem, pm.holiday) =>
    pm.score =
      TitleWeight
        * TitleHits(includePatterns(pm.additionalTitles, pm.holiday), MatcherItem)
      + SummaryWeight
        * SummaryHits(includePatterns(pm.additionalTitles, pm.holiday), MatcherItem)
      + StrongTitleWeight * TitleHits(getStrongIndicators(pm.holiday), MatcherItem)
      + StrongSummaryWeight
        * SummaryHits(getStrongIndicators(pm.holiday), MatcherItem)

C23_Witness ==
  /\ pm.op = "getMatchScore"
  /\ NotVetoed(MatcherItem, pm.holiday)
  /\ TitleHits(includePatterns(pm.additionalTitles, pm.holiday), MatcherItem) > 1
  /\ SummaryHits(includePatterns(pm.additionalTitles, pm.holiday), MatcherItem) > 0
  /\ TitleHits(getStrongIndicators(pm.holiday), MatcherItem) > 0
  /\ SummaryHits(getStrongIndicators(pm.holiday), MatcherItem) > 0
  /\ pm.score > ThresholdMax

\* an item without title scores by its summary alone
C23_WitnessUntitled ==
  /\ pm.op = "getMatchScore"
  /\ MatcherItem.title = << >>
  /\ pm.score = SummaryWeight + StrongSummaryWeight

\* ------------------------------------------------- match decision (claims)
\* the decision the contract gives for an item, a holiday and a threshold
Decision(item, holiday, threshold) ==
  \/ ~isPlexEpisode(item) /\ isRequiredMovie(item, holiday)
  \/ getMatchScore(pm.additionalTitles, item, holiday) >= threshold

\* item i of the library is in the entry of the holiday, in its bucket
ListedUnder(i, holiday) ==
  \E m \in 1..Len(pm.matches) :
    /\ pm.matches[m].holiday = holiday
    /\ IF isPlexEpisode(pm.media[i])
       THEN \E e \in 1..Len(pm.matches[m].episodes) :
              pm.matches[m].episodes[e] = pm.media[i]
       ELSE \E e \in 1..Len(pm.matches[m].movies) :
              pm.matches[m].movies[e] = pm.media[i]

\* C24: for every threshold t, holiday H of the subset and input item,
\* findMatchesWithThreshold lists the item under H iff the item is a movie
\* with the required-title override for H or getMatchScore(item, H) >= t; an
\* episode is never listed through the override; for t = 8 the listing agrees
\* with isMatch(item, H), so findMatches, getMatchSummary and isMatch make the
\* same decision for every item.
C24_ListingAgreesWithDecision ==
  /\ pm.op \in {"findMatchesWithThreshold", "findMatches"} =>
       \A i \in 1..Len(pm.media), j \in 1..Len(pm.holidaysToCheck) :
         ListedUnder(i, pm.holidaysToCheck[j])
           <=> Decision(pm.media[i], pm.holidaysToCheck[j], pm.threshold)
  /\ pm.op = "findMatches" =>
       /\ pm.threshold = MatchThreshold
       /\ pm.holidaysToCheck = MatcherHolidays
  /\ pm.op = "isMatch" =>
       (pm.matched <=> Decision(MatcherItem, pm.holiday, MatchThreshold))
  /\ pm.op = "getMatchSummary" =>
       \A h \in CuratedHolidays :
         pm.summary[h] =
           Cardinality({ i \in 1..Len(pm.media) :
                           Decision(pm.media[i], h, MatchThreshold) })

C24_Witness ==
  /\ pm.op = "findMatchesWithThreshold"
  /\ pm.threshold = MatchThreshold
  /\ \E i \in 1..Len(pm.media), j \in 1..Len(pm.holidaysToCheck) :
       /\ getMatchScore(pm.additionalTitles, pm.media[i], pm.holidaysToCheck[j])
            = MatchThreshold
       /\ ListedUnder(i, pm.holidaysToCheck[j])

\* ------------------------------------------ WikipediaScraper.scrapeTitles
\* scrapeTitles returns value
ScrapeReturn(w, value) == [w EXCEPT !.phase = "returned", !.result = value]

\* Variant: the error is thrown on to the caller.
ScrapeCatch_Rethrow(w) == [w EXCEPT !.phase = "thrown"]

\* catch (error) { ...; return new Map(); }
ScrapeCatch(w) == ScrapeReturn(w, EmptyMap)

\* scrapeTitles(skipScrape, selectedHolidays) up to its await
ScrapeTitles(skipScrape, selectedHolidays) ==
  /\ wiki.phase = "idle"
  /\ LET w == [wiki EXCEPT !.skipScrape = skipScrape,
                           !.selectedHolidays = selectedHolidays]
         results == Restrict(wiki.cache.titles, selectedHolidays)
     IN  wiki' = IF skipScrape THEN ScrapeReturn(w, EmptyMap)
                 ELSE IF wiki.cache.loaded /\ DOMAIN results # {}
                 THEN ScrapeReturn(w, results)
                 ELSE [w EXCEPT !.phase = "fetch"]
  /\ UNCHANGED << server, pm, ui >>

\* scrapeTitles after its await: the body is converted and cached, or the
\* catch block is entered
Received(scraper, out, saved) ==
  LET w == [scraper EXCEPT !.outcome = out.kind]
      cacheData == ArrayEntries(out.data)
  IN  IF out.kind = "ok"
      THEN ScrapeReturn(
             [w EXCEPT !.cache = CacheOf(cacheData),
                       !.storage = IF saved
                                   THEN [state |-> "fresh", titles |-> cacheData]
                                   ELSE scraper.storage],
             Restrict(cacheData, scraper.selectedHolidays))
      ELSE ScrapeCatch(w)

\* The fetch is settled; saved: localStorage.setItem succeeds.
FetchResponded(out, saved) ==
  /\ wiki.phase = "fetch"
  /\ wiki' = Received(wiki, out, saved)
  /\ UNCHANGED << server, pm, ui >>

\* The fetch is answered by the route; down: the source pages that cannot be
\* fetched, fresh: the cache of the route is younger than CACHE_DURATION.
FetchServed(down, fresh, saved) ==
  /\ wiki.phase = "fetch"
  /\ LET r == ScrapeWikipedia(wiki.server, FALSE, down, fresh)
     IN  wiki' = Received([wiki EXCEPT !.server = r.cache],
                          [kind |-> "ok", data |-> r.body], saved)
  /\ UNCHANGED << server, pm, ui >>

\* scrapeWikipediaTitles is called again: new WikipediaScraper() loads the
\* cache from localStorage; expired: the stored data is older than
\* SCRAPE_CACHE_TTL by now.
NewScraper(expired) ==
  /\ wiki.phase = "returned"
  /\ LET storage == IF expired /\ wiki.storage.state = "fresh"
                    THEN [wiki.storage EXCEPT !.state = "stale"]
                    ELSE wiki.storage
     IN  wiki' = [IdleScraper EXCEPT !.storage = storage, !.cache = loadCache(storage),
                                     !.server = wiki.server]
  /\ UNCHANGED << server, pm, ui >>

\* new HolidayMatcher(titles) with the map scrapeTitles returned
NewMatcher ==
  /\ wiki.phase = "returned"
  /\ pm.op = "unbuilt"
  /\ pm' = [pm EXCEPT !.op = "none", !.additionalTitles = wiki.result]
  /\ UNCHANGED << server, ui, wiki >>

\* libraries with and without a title that only the scraped lists name
ScrapeLibraries ==
  { << a >> : a \in FirstItems }
  \cup { << a, PlexItem("k2", "movie", <<"love", " ", "story">>, << >>, 2010) >>
           : a \in FirstItems }

InitScrape ==
  /\ ServerIdle
  /\ ui = IdleCreator
  /\ \E lib \in ScrapeLibraries : pm = [IdleMatcher EXCEPT !.op = "unbuilt", !.media = lib]
  /\ \E storage \in StorageChoices :
       wiki = [IdleScraper EXCEPT !.storage = storage, !.cache = loadCache(storage)]

NextScrape ==
  \/ \E skipScrape \in BOOLEAN, sel \in ScrapeSelections : ScrapeTitles(skipScrape, sel)
  \/ \E out \in ScrapeOutcomes, saved \in BOOLEAN : FetchResponded(out, saved)
  \/ NewMatcher
  \/ \E hs \in HolidaysToCheckChoices : FindMatchesWithThreshold(MatchThreshold, hs)

SpecScrape == InitScrape /\ [][NextScrape]_vars

\* C25: scrapeTitles never throws to its caller: on any failure of the title
\* fetch (network error, non-OK status, error payload, malformed body) it
\* returns an empty map, and a pattern matcher built from that empty map
\* produces exactly the curated-keyword matches it would produce with no
\* supplementary titles.
C25_ScrapeFailureIsEmptyMap ==
  /\ wiki.phase \in {"idle", "fetch", "returned"}
  /\ wiki.outcome \in ScrapeFailures =>
       /\ wiki.phase = "returned"
       /\ DOMAIN wiki.result = {}
  /\ wiki.outcome \in ScrapeFailures
       /\ pm.op \in {"findMatchesWithThreshold", "findMatches"} =>
       pm.matches = findMatchesWithThreshold(NoTitles, pm.media, pm.threshold,
                                             pm.holidaysToCheck)

C25_Witness ==
  /\ wiki.outcome = "reject"
  /\ wiki.phase = "returned"
  /\ pm.op = "findMatchesWithThreshold"
  /\ Len(pm.matches) > 0
  /\ pm.matches # findMatchesWithThreshold(ArrayEntries(ScrapedLoveStory), pm.media,
                                          pm.threshold, pm.holidaysToCheck)

\* --------------------------------------------- findMatchesWithAI (claims)
\* per library and choice of holidays: the keys of the items that are a match
\* for none of the holidays, in input order
UnmatchedKeys ==
  [ media \in AILibraries |->
      [ holidaysToCheck \in AIHolidaysToCheckChoices |->
          LET none(item) ==
                \A i \in 1..Len(holidaysToCheck) :
                  ~isMatch(NoTitles, item, holidaysToCheck[i])
              items == SelectSeq(media, none)
          IN  [ i \in 1..Len(items) |-> items[i].key ] ] ]

NoDuplicate(items) ==
  \A i, j \in 1..Len(items) : items[i].key = items[j].key => i = j

\* C27: creating or updating a playlist from scan results never produces a
\* duplicate: every playlist of the server holds each item at most once, and
\* the per-holiday item list built from the bulk-classify results contains
\* each media item at most once, also when the cached or fresh AI answer
\* names the same holiday more than once.
C27_Claim ==
  /\ \A c \in ui.plex : NoDuplicate(c.items)
  /\ \A h \in DOMAIN ui.aiResults : NoDuplicate(ui.aiResults[h])

\* ---------------------------------------------------------------------------
\* C28: a bulk request without useAI answers from the cache alone.
\* ---------------------------------------------------------------------------

\* C28: when the bulk lookup of a request with useAI false resolves, the
\* request is answered at once with success, also when no classifier could be
\* constructed: no classify call of the request starts, the three tables are
\* as before, classified is 0, and every entry of results is the filtered
\* cached result of its item.  A request is in the classification loop only
\* with useAI true.
C28_NoAIWithoutUseAI ==
  [][ \A p \in Procs :
        /\ run'[p].status = "classify" => run'[p].useAI
        /\ ( /\ run[p].status = "read"
             /\ ~run[p].useAI
             /\ run'[p].status # "read" )
           => /\ run'[p].status = "ok"
              /\ run'[p].classified = 0
              /\ call' = call
              /\ ncalls' = ncalls
              /\ store' = store
              /\ \A e \in run'[p].results :
                   LET cachedResults ==
                         getBulkCachedClassifications(media_items, ai_response_cache,
                                                      Range(run[p].media), TRUE)
                   IN /\ MapHas(cachedResults, e.plexKey)
                      /\ e.holidays =
                           JsonStringify(FilterHolidays(MapGet(cachedResults, e.plexKey),
                                                        run[p].selectedHolidays)) ]_vars

\* A request without useAI over two items was answered from the cache: one
\* item had a cached result and is in results, the other had none and was
\* not classified.
C28_Witness ==
  \E p \in Procs :
    /\ run[p].status = "ok" /\ ~run[p].useAI /\ ~run[p].readFailed
    /\ run[p].total = 2 /\ run[p].cached = 1 /\ run[p].classified = 0
    /\ run[p].results # {}

\* A request without useAI was answered with success although the classifier
\* is not configured.
C28_WitnessNoClassifier ==
  \E p \in Procs :
    /\ run[p].status = "ok" /\ ~run[p].useAI /\ ~configured /\ run[p].total > 0

\* ---------------------------------------------------------------------------
\* C29: the counters of a bulk-classify response.
\* ---------------------------------------------------------------------------

\* The classify calls of the request of p that threw, the one p holds
\* included.
FailedSoFar(p) ==
  run[p].failed
    + (IF run[p].status = "classify" /\ call[p].pc = "threw" THEN 1 ELSE 0)

\* C29: in the step that answers a bulk request with success, total is the
\* number of items submitted and cached + classified is at most total; when
\* useAI is true and the cache read succeeded (the keys of a batch are
\* distinct), total - cached - classified is the number of classify calls of
\* the request that threw.  For every batch, a key twice or not, the size of
\* the cached map and the number of items needing classification are together
\* at most the length of the batch.
C29_ResponseCounters ==
  [][ /\ \A ml \in PartitionInputs, dbOk \in BOOLEAN :
           LET cachedResults ==
                 getBulkCachedClassifications(media_items, ai_response_cache,
                                              Range(ml), dbOk)
           IN Cardinality(cachedResults)
                + Len(SelectSeq(ml, LAMBDA k : ~MapHas(cachedResults, k))) <= Len(ml)
      /\ \A p \in Procs :
           ( /\ run[p].status \in {"read", "classify"}
             /\ run'[p].status = "ok" )
           => /\ run'[p].total = Len(run[p].media)
              /\ run'[p].cached + run'[p].classified <= run'[p].total
              /\ ( /\ Cardinality(Range(run[p].media)) = Len(run[p].media)
                   /\ run[p].useAI
                   /\ ~run'[p].readFailed )
                 => run'[p].total - run'[p].cached - run'[p].classified
                      = FailedSoFar(p) ]_vars

\* A request with useAI over two items was answered after a successful cache
\* read: none was cached, one was classified, the classification of the other
\* failed.
C29_Witness ==
  \E p \in Procs :
    /\ run[p].status = "ok" /\ run[p].useAI /\ ~run[p].readFailed
    /\ run[p].total = 2 /\ run[p].cached = 0 /\ run[p].classified = 1

\* A request with useAI was answered with its two items classified.
C29_WitnessClassified ==
  \E p \in Procs :
    /\ run[p].status = "ok" /\ run[p].useAI /\ ~run[p].readFailed
    /\ run[p].total = 2 /\ run[p].classified = 2

\* ---------------------------------------------------------------------------
\* C30: cross-holiday suppression looks at the title only.
\* ---------------------------------------------------------------------------

\* The summary of the item, and not its title, matches a strong indicator of
\* a curated holiday other than holiday.
ForeignIndicatorInSummaryOnly(item, holiday) ==
  /\ \E o \in CuratedHolidays \ {holiday} : IndicatorIn(o, item.summary)
  /\ \A o \in CuratedHolidays \ {holiday} : ~IndicatorIn(o, item.title)

\* C30 as stated: an item whose summary, but not its title, matches a strong
\* indicator of another curated holiday has for holiday H the score
\* accumulated from H's include patterns and strong indicators.
C30_Original ==
  ( /\ pm.op = "getMatchScore"
    /\ ForeignIndicatorInSummaryOnly(MatcherItem, pm.holiday) )
  => pm.score = IncludeScore(pm.additionalTitles, MatcherItem, pm.holiday)

\* C30: an item whose summary, but not its title, matches a strong indicator
\* of another curated holiday, and which no exclude pattern matches, is not
\* suppressed for holiday H: getMatchScore(item, H) is the score accumulated
\* from H's include patterns and strong indicators.
C30_SuppressionTitleOnly ==
  ( /\ pm.op = "getMatchScore"
    /\ ForeignIndicatorInSummaryOnly(MatcherItem, pm.holiday)
    /\ ~Excluded(MatcherItem) )
  => pm.score = IncludeScore(pm.additionalTitles, MatcherItem, pm.holiday)

\* An item whose summary names another holiday scored for the holiday of its
\* title.
C30_Witness ==
  /\ pm.op = "getMatchScore"
  /\ ForeignIndicatorInSummaryOnly(MatcherItem, pm.holiday)
  /\ ~Excluded(MatcherItem)
  /\ pm.score > 0

\* ---------------------------------------------------------------------------
\* C35: a title with strong indicators of two holidays.
\* ---------------------------------------------------------------------------

\* The curated holidays with a strong indicator that matches the text.
HolidaysIndicated(text) ==
  { h \in CuratedHolidays :
      \E i \in 1..Len(getStrongIndicators(h)) : Test(getStrongIndicators(h)[i], text) }

\* C35: an item whose title contains strong indicators of two different
\* curated holidays scores 0 for every curated holiday, and isMatch is true
\* for it only through the required-title override.
C35_TwoHolidaysScoreZero ==
  /\ ( /\ pm.op = "getMatchScore"
       /\ pm.holiday \in CuratedHolidays
       /\ Cardinality(HolidaysIndicated(MatcherItem.title)) >= 2 )
     => pm.score = 0
  /\ ( /\ pm.op = "isMatch"
       /\ pm.holiday \in CuratedHolidays
       /\ Cardinality(HolidaysIndicated(MatcherItem.title)) >= 2
       /\ pm.matched )
     => isRequiredMovie(MatcherItem, pm.holiday)

\* 'Santa Halloween' was scored for Halloween, where its title alone would
\* accumulate a positive score.
C35_Witness ==
  /\ pm.op = "getMatchScore"
  /\ pm.holiday \in HolidaysIndicated(MatcherItem.title)
  /\ HolidaysIndicated(MatcherItem.title) = {"Halloween", "Christmas"}
  /\ TitleHits(getStrongIndicators(pm.holiday), MatcherItem) > 0
  /\ pm.score = 0

\* ---------------------------------------------------------------------------
\* C32: the classification rows and the cached payload of an item.
\* ---------------------------------------------------------------------------

\* The holidays of the ai_classifications rows of a media item.
HolidaysOfRows(mediaItemId) ==
  { r.holiday : r \in { x \in ai_classifications : x.media_item_id = mediaItemId } }

\* The holidays named in a cached response payload.
HolidaysOfPayload(payload) ==
  { payload[i].holiday : i \in 1..Len(payload) }

\* C32: in every reachable state, for each item that has a cache row, the
\* holidays of its ai_classifications rows are the holidays of the response
\* payload of its cache row.
C32_Claim ==
  \A c \in ai_response_cache :
    HolidaysOfRows(c.media_item_id) = HolidaysOfPayload(c.response_payload)

\* ---------------------------------------------------------------------------
\* C33: classify and the bulk run terminate.
\* ---------------------------------------------------------------------------

\* One server process runs bulk requests and single classify calls, one
\* after the other.
NextCalls ==
  \/ \E p \in LoopProcs, media \in MediaLists, sel \in SelectedChoices, useAI \in BOOLEAN :
       BulkStart(p, media, sel, useAI)
  \/ \E p \in LoopProcs, dbOk \in BOOLEAN : BulkRead(p, dbOk)
  \/ \E p \in LoopProcs : BulkNext(p)
  \/ \E p \in LoopProcs, k \in Items : ClassifyStart(p, k)
  \/ \E p \in LoopProcs, dbOk \in BOOLEAN : GetCachedResult(p, dbOk)
  \/ \E p \in LoopProcs, out \in BackendOutcomes : BackendRespond(p, out)
  \/ \E p \in LoopProcs : Wake(p)
  \/ \E p \in LoopProcs, dbOk \in BOOLEAN : StoreMediaItem(p, dbOk)
  \/ \E p \in LoopProcs, dbOk \in BOOLEAN : SelectExisting(p, dbOk)
  \/ \E p \in LoopProcs, dbOk \in BOOLEAN : StoreClassification(p, dbOk)
  \/ \E p \in LoopProcs, dbOk \in BOOLEAN : CacheResponse(p, dbOk)

\* What the process awaits settles: the database answers or fails, the
\* backend answers or fails, the backoff timer fires.
Settle ==
  \/ \E p \in LoopProcs, dbOk \in BOOLEAN : BulkRead(p, dbOk)
  \/ \E p \in LoopProcs : BulkNext(p)
  \/ \E p \in LoopProcs, dbOk \in BOOLEAN : GetCachedResult(p, dbOk)
  \/ \E p \in LoopProcs, out \in BackendOutcomes : BackendRespond(p, out)
  \/ \E p \in LoopProcs : Wake(p)
  \/ \E p \in LoopProcs, dbOk \in BOOLEAN : StoreMediaItem(p, dbOk)
  \/ \E p \in LoopProcs, dbOk \in BOOLEAN : SelectExisting(p, dbOk)
  \/ \E p \in LoopProcs, dbOk \in BOOLEAN : StoreClassification(p, dbOk)
  \/ \E p \in LoopProcs, dbOk \in BOOLEAN : CacheResponse(p, dbOk)

SpecCalls == Init /\ [][NextCalls]_vars /\ WF_vars(Settle)

\* C33: a classify call sends at most maxRetries + 1 = 6 backend requests,
\* whatever the backend answers, and every call that has started returns or
\* throws.  The retry counter belongs to the call: every call starts with no
\* request sent and no retry counted.  A bulk run starts one classify call
\* per item needing classification, each for the next item of the list, so
\* at most as many calls as items submitted, and hence sends at most 6 times
\* as many requests; every bulk request that was accepted is answered.
C33_CallsTerminate ==
  /\ [](\A p \in LoopProcs :
          /\ hist[p].attempts <= maxRetries + 1
          /\ call[p].retries <= maxRetries
          /\ run[p].status = "classify" =>
               /\ run[p].idx <= Len(run[p].needs)
               /\ Len(run[p].needs) <= Len(run[p].media))
  /\ [][ \A p \in LoopProcs :
           /\ (call'[p].pc = "getCachedResult" /\ call[p].pc # "getCachedResult")
                => /\ Finished(call[p])
                   /\ call'[p].retries = 0
                   /\ hist'[p].attempts = 0
                   /\ run'[p].status = "classify" =>
                        /\ run'[p].idx = (IF run[p].status = "classify"
                                          THEN run[p].idx + 1 ELSE 1)
                        /\ call'[p].media = run'[p].needs[run'[p].idx]
           /\ hist'[p].attempts > hist[p].attempts
                => /\ hist'[p].attempts = hist[p].attempts + 1
                   /\ call'[p].pc = "create" ]_vars
  /\ \A p \in LoopProcs : (~Finished(call[p])) ~> Finished(call[p])
  /\ \A p \in LoopProcs :
       (run[p].status \in {"read", "classify"})
         ~> (run[p].status \in {"ok", "error500"})

\* The second item of a bulk run is at its sixth backend request.
C33_Witness ==
  \E p \in LoopProcs :
    /\ run[p].status = "classify" /\ run[p].idx = 2
    /\ call[p].pc = "create" /\ hist[p].attempts = maxRetries + 1

\* ---------------------------------------------------------------------------
\* C31: the previews of a holiday after the merge.
\* ---------------------------------------------------------------------------

\* the previews of holiday h that the confirm step shows
PreviewsFor(h) ==
  { i \in 1..Len(ui.previews) : ui.previews[i].holiday = h }

\* how often the item with guid g is listed in preview i
ListedIn(i, g) ==
  Cardinality({ j \in 1..Len(ui.previews[i].episodes) : ui.previews[i].episodes[j].key = g })
  + Cardinality({ j \in 1..Len(ui.previews[i].movies) : ui.previews[i].movies[j].key = g })

\* g is listed in the previews in I at most once
RECURSIVE ListedOnce(_, _)
ListedOnce(I, g) ==
  IF I = {} THEN TRUE
  ELSE LET i == CHOOSE x \in I : TRUE
       IN  /\ ListedIn(i, g) <= 1
           /\ ListedIn(i, g) = 1 => \A k \in I \ {i} : ListedIn(k, g) = 0
           /\ ListedOnce(I \ {i}, g)

ScanSettles ==
  \/ \E media \in ScanLibraries, ok \in BOOLEAN : MediaLoaded(media, ok)
  \/ PlaylistsLoaded
  \/ \E resp \in AllBulkResponses, rejected \in BOOLEAN : BulkResponded(resp, rejected)
  \/ \E ok \in BOOLEAN : CreateNext(ok)

SpecScanLive == InitScan /\ [][NextScan]_vars /\ WF_vars(ScanSettles)

\* C36: the wizard does not stay in the analyze step: whether the analysis
\* completes or throws, the step eventually is confirm or create, or one of
\* the steps with user controls (holidays, library).
C36_Claim ==
  (ui.step = "analyze") ~> (ui.step \in {"confirm", "create", "holidays", "library"})

\* ---------------------------------------------------------------------
\* The title corpus across requests: the cache of the route and the cache
\* of the client

AllPages == UNION { { WIKI_SOURCES[h][i] : i \in 1..Len(WIKI_SOURCES[h]) } : h \in DOMAIN WIKI_SOURCES }

PagesOf(holiday) == { WIKI_SOURCES[holiday][i] : i \in 1..Len(WIKI_SOURCES[holiday]) }

\* the source pages that cannot be fetched during one request
Outages ==
  { {}, AllPages, PagesOf("Christmas"), {"christmas-list"}, {"halloween-list"} }

\* the fetch does not reach the route or its answer is unusable
FailedOutcomes == { out \in ScrapeOutcomes : out.kind \in ScrapeFailures }

InitScrapeCache ==
  /\ ServerIdle
  /\ ui = IdleCreator
  /\ pm = IdleMatcher
  /\ \E storage \in StorageChoices :
       wiki = [IdleScraper EXCEPT !.storage = storage, !.cache = loadCache(storage)]

NextScrapeCache ==
  \/ \E skipScrape \in BOOLEAN, sel \in ScrapeSelections : ScrapeTitles(skipScrape, sel)
  \/ \E down \in Outages, fresh \in BOOLEAN, saved \in BOOLEAN : FetchServed(down, fresh, saved)
  \/ \E out \in FailedOutcomes, saved \in BOOLEAN : FetchResponded(out, saved)
  \/ \E expired \in BOOLEAN : NewScraper(expired)

SpecScrapeCache == InitScrapeCache /\ [][NextScrapeCache]_vars

\* every source page yields a title when it can be fetched, so the list of a
\* holiday is empty exactly when all its source pages failed
EmptyListOf(titles) == { h \in DOMAIN titles : titles[h] = << >> }

\* C34: only successfully fetched title lists are cached: when every source
\* page of a holiday fails during a scrape, no entry for that holiday is
\* stored in the cache of the route or in the cache of the client (in memory
\* or in localStorage), so the next scrape within the time-to-live fetches
\* again and no scrapeTitles call is answered from a cached empty list.
C34_Claim ==
  /\ EmptyListOf(wiki.server.titles) = {}
  /\ EmptyListOf(wiki.cache.titles) = {}
  /\ EmptyListOf(wiki.storage.titles) = {}
  /\ wiki.phase = "returned" /\ wiki.outcome = "none" => EmptyListOf(wiki.result) = {}

\* a scrapeTitles call answered from the client cache with an empty list
C34_ServedEmptyFromCache ==
  wiki.phase = "returned" /\ wiki.outcome = "none" /\ ~wiki.skipScrape
    /\ "Christmas" \in EmptyListOf(wiki.result)

\* ---------------------------------------------------------------------
\* PlexProvider: connect, disconnect, restoreConnection

\* connect(server) up to its await
ConnectStart(conn, c, plexServer) ==
  [conn EXCEPT !.isLoading = TRUE, !.error = FALSE,
               !.calls[c] = [pc |-> "test", server |-> plexServer, overtaken |-> FALSE]]

\* catch (err): setError, setIsConnected(false), setClient(null)
ConnectCatch(conn) ==
  [conn EXCEPT !.error = TRUE, !.isConnected = FALSE, !.client = NoServer,
               !.byOvertaken = FALSE]

\* connect after its await; connectionSuccess: what testConnection resolved
\* to, saved: localStorage.setItem succeeds
ConnectFinish(conn, c, connectionSuccess, saved) ==
  LET mine == conn.calls[c]
      tried == IF connectionSuccess
               THEN LET set == [conn EXCEPT !.client = mine.server, !.isConnected = TRUE,
                                            !.byOvertaken = mine.overtaken]
                    IN  IF saved THEN [set EXCEPT !.stored = mine.server]
                        ELSE ConnectCatch(set)
               ELSE ConnectCatch(conn)
  IN  [tried EXCEPT !.isLoading = FALSE, !.calls[c] = IdleConnect]

Connect(c, plexServer) ==
  /\ ui.conn.calls[c].pc = "idle"
  /\ ui' = [ui EXCEPT !.conn = ConnectStart(@, c, plexServer)]
  /\ UNCHANGED << server, pm, wiki >>

\* The connection test of call c is settled.
ConnectionTested(c, connectionSuccess, saved) ==
  /\ ui.conn.calls[c].pc = "test"
  /\ ui' = [ui EXCEPT !.conn = ConnectFinish(@, c, connectionSuccess, saved)]
  /\ UNCHANGED << server, pm, wiki >>

Disconnect ==
  /\ ui' = [ui EXCEPT !.conn =
              [@ EXCEPT !.client = NoServer, !.isConnected = FALSE, !.error = FALSE,
                        !.stored = NoServer, !.byOvertaken = FALSE,
                        !.calls = [c \in ConnectCalls |->
                                     IF @[c].pc = "test"
                                     THEN [@[c] EXCEPT !.overtaken = TRUE] ELSE @[c]]]]
  /\ UNCHANGED << server, pm, wiki >>

\* restoreConnection with a stored server: connect(server)
RestoreConnection(c) ==
  /\ ui.conn.stored # NoServer
  /\ ui.conn.calls[c].pc = "idle"
  /\ ui' = [ui EXCEPT !.conn = ConnectStart(@, c, ui.conn.stored)]
  /\ UNCHANGED << server, pm, wiki >>

InitPlex ==
  /\ ServerIdle
  /\ pm = IdleMatcher
  /\ wiki = IdleScraper
  /\ \E stored \in PlexServers \cup {NoServer} :
       ui = [IdleCreator EXCEPT !.conn.stored = stored]

NextPlex ==
  \/ \E c \in ConnectCalls : RestoreConnection(c)
  \/ \E c \in ConnectCalls, plexServer \in PlexServers : Connect(c, plexServer)
  \/ \E c \in ConnectCalls, connectionSuccess \in BOOLEAN, saved \in BOOLEAN :
       ConnectionTested(c, connectionSuccess, saved)
  \/ Disconnect

SpecPlex == InitPlex /\ [][NextPlex]_vars

\* C37: after disconnect() the connection state stays disconnected
\* (isConnected false, client null, no stored server) until a connect() that
\* starts afterwards succeeds: a connect() whose connection test was in
\* flight when disconnect() ran does not re-establish the connection when it
\* completes; and isConnected is true iff client is non-null.
C37_Claim ==
  /\ ui.conn.isConnected <=> ui.conn.client # NoServer
  /\ ~ui.conn.byOvertaken

\* isConnected and client are set and cleared together
C37_ConnectedIffClient ==
  ui.conn.isConnected <=> ui.conn.client # NoServer

====
